---- MODULE Spec2Model ----
(***************************************************************************)
(* Texas Hold'em hand evaluator and Monte Carlo equity simulator           *)
(* (backend/internal/poker): the card model, the 5-card classifier, the    *)
(* 7-card best-hand search, the hand comparator, one simulated trial and   *)
(* the goroutine fan-out / channel merge of SimulateEquity.                *)
(***************************************************************************)
EXTENDS Integers, Sequences, FiniteSets, TLC

(***************************************************************************)
(* card.go: suits, ranks, cards, the full deck                             *)
(***************************************************************************)
Hearts == 0
Diamonds == 1
Clubs == 2
Spades == 3

Two == 2
Three == 3
Four == 4
Five == 5
Six == 6
Seven == 7
Eight == 8
Nine == 9
Ten == 10
Jack == 11
Queen == 12
King == 13
Ace == 14

\* suits and ranks in the order FullDeck ranges over them
suits == <<Hearts, Diamonds, Clubs, Spades>>
ranks == <<Two, Three, Four, Five, Six, Seven, Eight, Nine, Ten, Jack, Queen, King, Ace>>

suitChar(s) ==
  CASE s = Hearts -> "H"
    [] s = Diamonds -> "D"
    [] s = Clubs -> "C"
    [] s = Spades -> "S"
    [] OTHER -> "NUL"

rankChar(r) ==
  CASE r = Two -> "2"
    [] r = Three -> "3"
    [] r = Four -> "4"
    [] r = Five -> "5"
    [] r = Six -> "6"
    [] r = Seven -> "7"
    [] r = Eight -> "8"
    [] r = Nine -> "9"
    [] r = Ten -> "T"
    [] r = Jack -> "J"
    [] r = Queen -> "Q"
    [] r = King -> "K"
    [] r = Ace -> "A"
    [] OTHER -> "NUL"

\* the two-character code, as the pair of its characters
formatCard(s, r) == <<suitChar(s), rankChar(r)>>

Card(s, r) == [Suit |-> s, Rank |-> r, Str |-> formatCard(s, r)]

\* A string is the sequence of its bytes, a byte the one-character string of
\* it.  The rank a byte stands for in the switch on s[1], 0 for the default.
rankOfByte(b) ==
  CASE b = "2" -> Two
    [] b = "3" -> Three
    [] b = "4" -> Four
    [] b = "5" -> Five
    [] b = "6" -> Six
    [] b = "7" -> Seven
    [] b = "8" -> Eight
    [] b = "9" -> Nine
    [] b = "T" -> Ten
    [] b = "J" -> Jack
    [] b = "Q" -> Queen
    [] b = "K" -> King
    [] b = "A" -> Ace
    [] OTHER -> 0

\* the suit a byte stands for in the switch on s[0], -1 for the default
suitOfByte(b) ==
  CASE b = "H" -> Hearts
    [] b = "D" -> Diamonds
    [] b = "C" -> Clubs
    [] b = "S" -> Spades
    [] OTHER -> -1

\* (Card, error): err is "ok" for a nil error, else the kind of the error,
\* and arg is what the message is formatted with
parsed(card, err, arg) == [card |-> card, err |-> err, arg |-> arg]

\* Card{}
ZeroCard == [Suit |-> 0, Rank |-> 0, Str |-> <<>>]

\* mutant: the suit is looked up without regard to case
ParseCard_FoldsCase(s) ==
  LET upper(b) == CASE b = "h" -> "H" [] b = "d" -> "D" [] b = "c" -> "C"
                    [] b = "s" -> "S" [] OTHER -> b
  IN IF Len(s) # 2 THEN parsed(ZeroCard, "invalid card format", s)
     ELSE IF rankOfByte(s[2]) = 0 THEN parsed(ZeroCard, "invalid rank", s[2])
     ELSE IF suitOfByte(upper(s[1])) = -1 THEN parsed(ZeroCard, "invalid suit", s[1])
     ELSE parsed([Suit |-> suitOfByte(upper(s[1])), Rank |-> rankOfByte(s[2]), Str |-> s],
                 "ok", <<>>)

ParseCard(s) ==
  IF Len(s) # 2 THEN parsed(ZeroCard, "invalid card format", s)
  ELSE IF rankOfByte(s[2]) = 0 THEN parsed(ZeroCard, "invalid rank", s[2])
  ELSE IF suitOfByte(s[1]) = -1 THEN parsed(ZeroCard, "invalid suit", s[1])
  ELSE parsed([Suit |-> suitOfByte(s[1]), Rank |-> rankOfByte(s[2]), Str |-> s], "ok", <<>>)

\* suit-major, rank-minor: deck[13*(si-1) + ri]
FullDeck ==
  [k \in 1..(Len(suits) * Len(ranks)) |->
     Card(suits[((k - 1) \div Len(ranks)) + 1], ranks[((k - 1) % Len(ranks)) + 1])]

(***************************************************************************)
(* hand_eval.go: categories and HandValue                                  *)
(***************************************************************************)
HighCard == 0
OnePair == 1
TwoPair == 2
ThreeOfAKind == 3
Straight == 4
Flush == 5
FullHouse == 6
FourOfAKind == 7
StraightFlush == 8

HandValue(cat, ks) == [Category |-> cat, Kickers |-> ks]

SetMax(S) == CHOOSE x \in S : \A y \in S : y <= x
SetMin(S) == CHOOSE x \in S : \A y \in S : x <= y

\* sort.Slice(cards, rank descending). sort.Slice is not stable, so the order
\* of cards of equal rank is unspecified; evaluate5 reads only the ranks of the
\* sorted slice (and, for a flush, all five cards share the suit), so the
\* insertion order used here for equal ranks is not observable.
\* mutant: the sort is left out, the cards stay in the order given
sortByRankDesc_NoSort(cards) == cards

RECURSIVE sortByRankDesc(_)
sortByRankDesc(cards) ==
  IF Len(cards) <= 1 THEN cards
  ELSE LET rest == sortByRankDesc(Tail(cards))
           c == Head(cards)
           before == SelectSeq(rest, LAMBDA x : x.Rank >= c.Rank)
           after == SelectSeq(rest, LAMBDA x : x.Rank < c.Rank)
       IN before \o <<c>> \o after

\* count per suit; a suit with at least 5 cards. The map is ranged over in an
\* unspecified order: any qualifying suit may be the one returned.
flushSuits(cards) ==
  {s \in {cards[i].Suit : i \in DOMAIN cards} :
     Cardinality({i \in DOMAIN cards : cards[i].Suit = s}) >= 5}

detectFlush(cards) ==
  LET fs == flushSuits(cards)
  IN IF fs # {}
     THEN [ok |-> TRUE, suit |-> CHOOSE s \in fs : TRUE]
     ELSE [ok |-> FALSE, suit |-> Hearts]

filterBySuit(cards, s) == SelectSeq(cards, LAMBDA c : c.Suit = s)

\* mutant: the wheel is found, and reported with the Ace as its top
detectStraight_WheelAceHigh(cards) ==
  LET seen == {cards[i].Rank : i \in DOMAIN cards}
      tops == {start \in Five..Ace : \A offset \in 0..4 : (start - offset) \in seen}
  IN IF {Ace, Two, Three, Four, Five} \subseteq seen
     THEN [ok |-> TRUE, top |-> Ace]
     ELSE IF tops # {}
          THEN [ok |-> TRUE, top |-> SetMax(tops)]
          ELSE [ok |-> FALSE, top |-> Two]

detectStraight(cards) ==
  LET seen == {cards[i].Rank : i \in DOMAIN cards}
      tops == {start \in Five..Ace : \A offset \in 0..4 : (start - offset) \in seen}
  IN IF {Ace, Two, Three, Four, Five} \subseteq seen
     THEN [ok |-> TRUE, top |-> Five]
     ELSE IF tops # {}
          THEN [ok |-> TRUE, top |-> SetMax(tops)]
          ELSE [ok |-> FALSE, top |-> Two]

ranksOnly(cards) == [i \in 1..Len(cards) |-> cards[i].Rank]

\* the ranks of cards, in order, that are not in the exclude set
notExcluded(cards, exclude) ==
  SelectSeq(ranksOnly(cards), LAMBDA r : r \notin exclude)

\* mutant: the exclusions are ignored
highestDifferentRank_NoExclusion(cards, exclude) ==
  IF cards # <<>> THEN cards[1].Rank ELSE Two

highestDifferentRank(cards, exclude) ==
  LET res == notExcluded(cards, exclude)
  IN IF res # <<>> THEN Head(res) ELSE Two

\* res[0], res[1] of the first n ranks not excluded (n = 2 at the only call)
topKickersExcluding(cards, exclude, n) ==
  SubSeq(notExcluded(cards, exclude), 1, n)

\* mutant: one kicker short
topThreeKickersExcluding_Two(cards, exclude) ==
  SubSeq(notExcluded(cards, exclude), 1, 2)

topThreeKickersExcluding(cards, exclude) ==
  SubSeq(notExcluded(cards, exclude), 1, 3)

\* ps: the (rank, count) pairs sorted by count descending, then rank
\* descending. The ranks of the pairs are distinct, so the comparator orders
\* them totally and the sorted slice is unique whatever order the map yields.
RECURSIVE sortPairs(_)
sortPairs(S) ==
  IF S = {} THEN <<>>
  ELSE LET first == CHOOSE p \in S :
                      \A q \in S \ {p} : IF p.c = q.c THEN p.r > q.r ELSE p.c > q.c
       IN <<first>> \o sortPairs(S \ {first})

rankCounts(cards) ==
  {[r |-> rk, c |-> Cardinality({i \in DOMAIN cards : cards[i].Rank = rk})] :
     rk \in {cards[i].Rank : i \in DOMAIN cards}}

evaluate5(hand) ==
  LET cards == sortByRankDesc(hand)
      fl == detectFlush(cards)
      st == detectStraight(cards)
  IN IF fl.ok
     THEN LET flushCards == filterBySuit(cards, fl.suit)
              sf == detectStraight(flushCards)
          IN IF sf.ok
             THEN HandValue(StraightFlush, <<sf.top>>)
             ELSE HandValue(Flush, ranksOnly(flushCards))
     ELSE IF st.ok
     THEN HandValue(Straight, <<st.top>>)
     ELSE LET ps == sortPairs(rankCounts(cards))
          IN IF ps[1].c = 4
             THEN HandValue(FourOfAKind, <<ps[1].r, highestDifferentRank(cards, {ps[1].r})>>)
             ELSE IF ps[1].c = 3 /\ Len(ps) > 1 /\ ps[2].c >= 2
             THEN HandValue(FullHouse, <<ps[1].r, ps[2].r>>)
             ELSE IF ps[1].c = 3
             THEN HandValue(ThreeOfAKind,
                            <<ps[1].r>> \o topKickersExcluding(cards, {ps[1].r}, 2))
             ELSE IF ps[1].c = 2 /\ Len(ps) > 1 /\ ps[2].c = 2
             THEN LET highPair == IF ps[2].r > ps[1].r THEN ps[2].r ELSE ps[1].r
                      lowPair == IF ps[2].r > ps[1].r THEN ps[1].r ELSE ps[2].r
                  IN HandValue(TwoPair,
                               <<highPair, lowPair,
                                 highestDifferentRank(cards, {highPair, lowPair})>>)
             ELSE IF ps[1].c = 2
             THEN HandValue(OnePair,
                            <<ps[1].r>> \o topThreeKickersExcluding(cards, {ps[1].r}))
             ELSE HandValue(HighCard, ranksOnly(cards))

\* Position of the first index at which the kickers differ within the common
\* prefix, 0 if none: where the comparator's loop returns.
firstDiff(a, b) ==
  LET n == IF Len(a.Kickers) < Len(b.Kickers) THEN Len(a.Kickers) ELSE Len(b.Kickers)
      d == {i \in 1..n : a.Kickers[i] # b.Kickers[i]}
  IN IF d = {} THEN 0 ELSE SetMin(d)

\* the comparator got past the kicker loop with sequences of different
\* lengths: the branch that ranks the longer sequence greater
lengthRuleReached(a, b) ==
  /\ a.Category = b.Category
  /\ firstDiff(a, b) = 0
  /\ Len(a.Kickers) # Len(b.Kickers)

\* mutant: only the first kicker is compared
CompareHandValues_FirstKickerOnly(a, b) ==
  IF a.Category # b.Category
  THEN (IF a.Category > b.Category THEN 1 ELSE -1)
  ELSE IF a.Kickers[1] > b.Kickers[1] THEN 1
  ELSE IF a.Kickers[1] < b.Kickers[1] THEN -1
  ELSE 0

CompareHandValues(a, b) ==
  IF a.Category # b.Category
  THEN (IF a.Category > b.Category THEN 1 ELSE -1)
  ELSE LET i == firstDiff(a, b)
       IN IF i # 0
          THEN (IF a.Kickers[i] > b.Kickers[i] THEN 1 ELSE -1)
          ELSE IF Len(a.Kickers) = Len(b.Kickers) THEN 0
          ELSE IF Len(a.Kickers) > Len(b.Kickers) THEN 1
          ELSE -1

\* size of the hand and of the subsets the generator ranges over (n, k)
comboN == 7
comboK == 5

\* next(): indexes holds k positions (0-based values); the rightmost one that
\* is not at its maximum i+n-k is incremented and the ones after it reset.
\* mutant: the generator takes the hand to have 6 cards, so the last card
\* is never part of a combination
next_SixCards(indexes) ==
  LET movable == {i \in 0..(comboK - 1) : indexes[i + 1] # i + (comboN - 1) - comboK}
  IN IF movable = {}
     THEN [ok |-> FALSE, indexes |-> indexes]
     ELSE LET i == SetMax(movable)
          IN [ok |-> TRUE,
              indexes |-> [j \in 1..comboK |->
                             IF j - 1 < i THEN indexes[j]
                             ELSE indexes[i + 1] + 1 + (j - 1 - i)]]

\* mutant: the positions after the incremented one are not reset
next_NoReset(indexes) ==
  LET movable == {i \in 0..(comboK - 1) : indexes[i + 1] # i + comboN - comboK}
  IN IF movable = {}
     THEN [ok |-> FALSE, indexes |-> indexes]
     ELSE LET i == SetMax(movable)
          IN [ok |-> TRUE, indexes |-> [indexes EXCEPT ![i + 1] = indexes[i + 1] + 1]]

next(indexes) ==
  LET movable == {i \in 0..(comboK - 1) : indexes[i + 1] # i + comboN - comboK}
  IN IF movable = {}
     THEN [ok |-> FALSE, indexes |-> indexes]
     ELSE LET i == SetMax(movable)
          IN [ok |-> TRUE,
              indexes |-> [j \in 1..comboK |->
                             IF j - 1 < i THEN indexes[j]
                             ELSE indexes[i + 1] + 1 + (j - 1 - i)]]

evalCombo(cards, indexes) ==
  evaluate5([j \in 1..comboK |-> cards[indexes[j] + 1]])

\* mutant: the first combination is never replaced
bestLoop_KeepsFirst(cards, indexes, best) == best

\* for next() { hv := evalCombo(); if CompareHandValues(hv, best) > 0 { best = hv } }
RECURSIVE bestLoop(_, _, _)
bestLoop(cards, indexes, best) ==
  LET nx == next(indexes)
  IN IF ~nx.ok THEN best
     ELSE LET hv == evalCombo(cards, nx.indexes)
          IN bestLoop(cards, nx.indexes,
                      IF CompareHandValues(hv, best) > 0 THEN hv ELSE best)

\* the value standing for the panic on a hand that is not 7 cards
HandSizePanic == [panic |-> "EvaluateBestHand requires exactly 7 cards"]

EvaluateBestHand(cards) ==
  IF Len(cards) # comboN THEN HandSizePanic
  ELSE bestLoop(cards, <<0, 1, 2, 3, 4>>, evalCombo(cards, <<0, 1, 2, 3, 4>>))


(***************************************************************************)
(* The simulator: SimulationResult, the remaining deck, one trial          *)
(***************************************************************************)
SimulationResult(h, v, t, n) ==
  [HeroWins |-> h, VillainWins |-> v, Ties |-> t, TrialsRun |-> n]

\* SimulationResult{}
ZeroResult == SimulationResult(0, 0, 0, 0)

\* used: the codes of the known cards; filtered: the deck's cards, in deck
\* order, whose code is not used
filterDeck(heroHole, community) ==
  LET used == {heroHole[i].Str : i \in DOMAIN heroHole}
                \cup {community[i].Str : i \in DOMAIN community}
  IN SelectSeq(FullDeck, LAMBDA c : c.Str \notin used)

\* The random source: a seed and the number of shuffles drawn from it so far.
\* Two sources with the same seed produce the same stream.
NewSource(seed) == [seed |-> seed, n |-> 0]

\* The index in 0..i the source yields for position i of its current
\* shuffle.  rand.Shuffle asks for one such index per position, last
\* position first; which index comes is the generator's business, and this
\* is one generator: a fixed function of seed, shuffle number and position.
Intn(rng, i) == (rng.seed * 31 + rng.n * 17 + i * (rng.seed + 3) + (i * i) \div 3) % (i + 1)

\* mutant: the swap overwrites tmp[i] and loses its old value
swap_Overwrite(tmp, i, j) == [tmp EXCEPT ![i + 1] = tmp[j + 1]]

\* tmp[i], tmp[j] = tmp[j], tmp[i]   (0-based i, j)
swap(tmp, i, j) == [tmp EXCEPT ![i + 1] = tmp[j + 1], ![j + 1] = tmp[i + 1]]

\* rng.Shuffle(len(tmp), swap): for i from len-1 down to 1, swap(i, Intn(i+1))
RECURSIVE shuffleFrom(_, _, _)
shuffleFrom(rng, tmp, i) ==
  IF i <= 0 THEN tmp
  ELSE shuffleFrom(rng, swap(tmp, i, Intn(rng, i)), i - 1)

Shuffle(rng, tmp) == shuffleFrom(rng, tmp, Len(tmp) - 1)

\* The opponents loop, from opponent opp on: the hole cards dealt and the
\* best hands found so far are in acc; the loop breaks when fewer than two
\* cards are left.
RECURSIVE dealOpponents(_, _, _, _, _)
dealOpponents(tmp, simCommunity, numOpponents, opp, acc) ==
  IF opp >= numOpponents \/ acc.drawIdx + 2 > Len(tmp) THEN acc
  ELSE LET oppHole == <<tmp[acc.drawIdx + 1], tmp[acc.drawIdx + 2]>>
           oppBest == EvaluateBestHand(oppHole \o simCommunity)
       IN dealOpponents(tmp, simCommunity, numOpponents, opp + 1,
                        [drawIdx |-> acc.drawIdx + 2,
                         oppHoles |-> Append(acc.oppHoles, oppHole),
                         oppBests |-> Append(acc.oppBests, oppBest)])

\* mutant: an opponent's equal hand does not take the win from hero
outcome_TiesToHero(heroBest, oppBests) ==
  LET villainBetter == \E k \in DOMAIN oppBests : CompareHandValues(oppBests[k], heroBest) > 0
  IN IF villainBetter THEN [heroWin |-> FALSE, villainWin |-> TRUE, tie |-> FALSE]
     ELSE [heroWin |-> TRUE, villainWin |-> FALSE, tie |-> FALSE]

\* villainBetter, equalCount and the three returned flags
outcome(heroBest, oppBests) ==
  LET villainBetter == \E k \in DOMAIN oppBests : CompareHandValues(oppBests[k], heroBest) > 0
      equalCount == Cardinality({k \in DOMAIN oppBests :
                                   CompareHandValues(oppBests[k], heroBest) = 0})
  IN IF villainBetter THEN [heroWin |-> FALSE, villainWin |-> TRUE, tie |-> FALSE]
     ELSE IF equalCount > 0 THEN [heroWin |-> FALSE, villainWin |-> FALSE, tie |-> TRUE]
     ELSE [heroWin |-> TRUE, villainWin |-> FALSE, tie |-> FALSE]

\* the element of a one-element set: e is worked out once in the({f(x) : x \in {e}})
the(S) == CHOOSE x \in S : TRUE

\* mutant: the board is drawn from the deck whatever the community holds
simulateOnce_DrawsBoard(rng, heroHole, community, deck, numOpponents) ==
  LET tmp == Shuffle(rng, deck)
      toDraw == 5
      simCommunity == SubSeq(tmp, 1, toDraw)
      heroBest == EvaluateBestHand(heroHole \o simCommunity)
      opps == dealOpponents(tmp, simCommunity, numOpponents, 0,
                            [drawIdx |-> toDraw, oppHoles |-> <<>>, oppBests |-> <<>>])
      flags == outcome(heroBest, opps.oppBests)
  IN [tmp |-> tmp, simCommunity |-> simCommunity, heroBest |-> heroBest,
      oppHoles |-> opps.oppHoles, oppBests |-> opps.oppBests, drawIdx |-> opps.drawIdx,
      heroWin |-> flags.heroWin, villainWin |-> flags.villainWin, tie |-> flags.tie]

\* One trial.  The record holds the function's locals at its return and the
\* three flags it returns.
simulateOnce(rng, heroHole, community, deck, numOpponents) ==
  LET toDraw == 5 - Len(community)
      atReturn(tmp, simCommunity, heroBest, opps, flags) ==
        [tmp |-> tmp, simCommunity |-> simCommunity, heroBest |-> heroBest,
         oppHoles |-> opps.oppHoles, oppBests |-> opps.oppBests, drawIdx |-> opps.drawIdx,
         heroWin |-> flags.heroWin, villainWin |-> flags.villainWin, tie |-> flags.tie]
      hands(tmp, simCommunity) ==
        the({atReturn(tmp, simCommunity, heroBest, opps, outcome(heroBest, opps.oppBests)) :
               heroBest \in {EvaluateBestHand(heroHole \o simCommunity)},
               opps \in {dealOpponents(tmp, simCommunity, numOpponents, 0,
                                       [drawIdx |-> toDraw, oppHoles |-> <<>>,
                                        oppBests |-> <<>>])}})
      board(tmp) ==
        the({hands(tmp, simCommunity) : simCommunity \in {community \o SubSeq(tmp, 1, toDraw)}})
  IN the({board(tmp) : tmp \in {Shuffle(rng, deck)}})

(***************************************************************************)
(* State.  The evaluator and the comparator are pure; the variables below  *)
(* hold the inputs they are applied to and what they returned.             *)
(***************************************************************************)
VARIABLES
  pc,            \* where the operation under way stands
  hand,          \* the 7 cards handed to EvaluateBestHand
  reordered,     \* the same 7 cards in another order
  best,          \* EvaluateBestHand(hand)
  bestReordered, \* EvaluateBestHand(reordered)
  fives,         \* three 5-card hands handed to evaluate5
  values,        \* their three HandValues
  cmp,           \* what CompareHandValues returned for pairs of them
  heroHole,      \* SimulateEquity / simulateOnce: hero's hole cards
  community,     \* the known community cards
  numOpponents,  \* the number of opponents
  rng,           \* simulateOnce: the random source handed in
  trial,         \* simulateOnce: its locals and results at return
  trials,        \* SimulateEquity: the number of trials asked for
  deck,          \* FullDeck()
  filtered,      \* the deck without the known cards
  workers,       \* the number of worker goroutines
  spawned,       \* w: how many goroutines the spawn loop has started
  goroutine,     \* per worker: its state, its trialsForWorker, its seed and tally
  clock,         \* the last value time.Now().UnixNano() returned
  results,       \* the buffered channel of partial results
  final,         \* the orchestrator's running sum
  received,      \* i: how many partial results it has received
  failure,       \* the panic message, if the call panicked
  outcomes,      \* what simulateOnce returns, by seed and trial number
  request,       \* handleSimulate: the decoded simulateRequest
  response,      \* handleSimulate: the status and body written
  heap,          \* the backing arrays of the slices, and who allocated them
  frame,         \* per worker goroutine: its position and its local slices
  writes,        \* the stores done so far: who wrote into which array
  text,          \* ParseCard: the string handed in
  parse,         \* ParseCard: the card and the error returned
  handler,       \* the handler the mux dispatched the request to
  calls,         \* the calls of EvaluateBestHand made for the request: their arguments
  indexes,       \* EvaluateBestHand: the indexes the combination generator holds
  visited        \* the combinations handed to evalCombo so far, in order

evalVars == <<hand, reordered, best, bestReordered>>
cmpVars == <<fives, values, cmp>>
inputVars == <<heroHole, community, numOpponents>>
trialVars == <<rng, trial>>
simVars == <<trials, deck, filtered, workers, spawned, goroutine, clock, results, final,
             received, failure, outcomes>>
httpVars == <<request, response>>
shareVars == <<heap, frame, writes>>
parseVars == <<text, parse>>
routeVars == <<handler, calls>>
comboVars == <<indexes, visited>>
vars == <<pc, evalVars, cmpVars, inputVars, trialVars, simVars, httpVars, shareVars,
          parseVars, routeVars, comboVars>>

\* a variable the operation under way does not use
None == "none"

EvalUnused == hand = None /\ reordered = None /\ best = None /\ bestReordered = None
CmpUnused == fives = None /\ values = None /\ cmp = None
InputUnused == heroHole = None /\ community = None /\ numOpponents = None
TrialUnused == rng = None /\ trial = None
SimUnused ==
  /\ trials = None /\ deck = None /\ filtered = None /\ workers = None
  /\ spawned = None /\ goroutine = None /\ clock = None /\ results = None
  /\ final = None /\ received = None /\ failure = None /\ outcomes = None
HttpUnused == request = None /\ response = None
ShareUnused == heap = None /\ frame = None /\ writes = None
ParseUnused == text = None /\ parse = None
RouteUnused == handler = None /\ calls = None
ComboUnused == indexes = None /\ visited = None

(***************************************************************************)
(* Inputs of the evaluator: 7 of WindowLen consecutive cards of the deck   *)
(* laid out in one of NumOrders orders, starting anywhere.                 *)
(***************************************************************************)
NumOrders == 12
NumStarts == 13
ExtraCards == 1
NumPerms == 2

DeckSize == Len(FullDeck)

\* Layouts of the 52 cards.  Layout o reads one of four base orders (o % 4)
\* at the offsets of one of several spacings (o \div 4):
\*   base 0  suit-major, as FullDeck: runs of one suit (flushes, straight flushes)
\*   base 1  rank-major: runs of one rank (quads, full houses, pairs)
\*   base 2  rank and suit both step: straights that are no flush, the wheel
\*   base 3  suit-major with the Ace before the Two: the wheel in one suit
\*   spacing 0, 1   every card, every 2nd card
\*   spacing 2      growing gaps 0,1,3,6,10,..: three of a rank, then singles
\*   spacing 3..    every (2s-3)-th card
Offset(sp, k) ==
  IF sp <= 1 THEN k * (sp + 1)
  ELSE IF sp = 2 THEN (k * (k + 1)) \div 2
  ELSE k * (2 * sp - 3)

BaseOrder(b, j) ==
  CASE b = 0 -> FullDeck[j + 1]
    [] b = 1 -> Card(suits[(j % 4) + 1], ranks[(j \div 4) + 1])
    [] b = 2 -> Card(suits[(j % 4) + 1], ranks[(j % 13) + 1])
    [] OTHER -> Card(suits[(j \div 13) + 1], ranks[((j + 12) % 13) + 1])

WindowLen == comboN + ExtraCards

Window(o, a) ==
  [k \in 1..WindowLen |-> BaseOrder(o % 4, (a + Offset(o \div 4, k - 1)) % DeckSize)]

\* the window without the positions in drop, in window order
Without(w, drop) ==
  LET keep == SelectSeq([k \in 1..Len(w) |-> k], LAMBDA k : k \notin drop)
  IN [i \in 1..Len(keep) |-> w[keep[i]]]

SevenCardHands ==
  {Without(Window(o, a), drop) :
     o \in 0..(NumOrders - 1), a \in {(5 * i) % DeckSize : i \in 0..(NumStarts - 1)},
     drop \in {d \in SUBSET (1..WindowLen) : Cardinality(d) = WindowLen - comboN}}

\* reorderings of a 7-card hand: rotations, and rotations of the reversal
Reorder(h, p) ==
  LET n == Len(h)
      rot == (p + 1) \div 2
  IN IF p % 2 = 1
     THEN [i \in 1..n |-> h[((i - 1 + rot) % n) + 1]]
     ELSE [i \in 1..n |-> h[((2 * n - i - rot) % n) + 1]]

EvalInit ==
  /\ pc = "input"
  /\ hand \in SevenCardHands
  /\ reordered = None
  /\ best = None
  /\ bestReordered = None
  /\ CmpUnused /\ InputUnused /\ TrialUnused /\ SimUnused /\ HttpUnused /\ ShareUnused
  /\ ParseUnused /\ RouteUnused /\ ComboUnused

Evaluate ==
  /\ pc = "input"
  /\ pc' = "evaluated"
  /\ best' = EvaluateBestHand(hand)
  /\ \E p \in 1..NumPerms :
       /\ reordered' = Reorder(hand, p)
       /\ bestReordered' = EvaluateBestHand(reordered')
  /\ UNCHANGED <<hand, cmpVars, inputVars, trialVars, simVars, httpVars, shareVars,
                 parseVars, routeVars, comboVars>>

EvalNext == Evaluate

SpecEval == EvalInit /\ [][EvalNext]_vars

(***************************************************************************)
(* The known 7-card hands as inputs of the evaluator, each in one of       *)
(* NumFixtureOrders orders.                                                *)
(***************************************************************************)
NumFixtureOrders == 14

Fixtures ==
  <<[cards |-> <<Card(Hearts, Ace), Card(Hearts, King), Card(Hearts, Queen), Card(Hearts, Jack),
                 Card(Hearts, Ten), Card(Spades, Two), Card(Spades, Three)>>,
     value |-> HandValue(StraightFlush, <<Ace>>)],
    [cards |-> <<Card(Hearts, Two), Card(Diamonds, Two), Card(Clubs, Two), Card(Spades, Two),
                 Card(Hearts, Five), Card(Hearts, Six), Card(Hearts, Seven)>>,
     value |-> HandValue(FourOfAKind, <<Two, Seven>>)],
    [cards |-> <<Card(Hearts, Two), Card(Diamonds, Two), Card(Clubs, Three), Card(Spades, Three),
                 Card(Hearts, Five), Card(Diamonds, Six), Card(Clubs, Seven)>>,
     value |-> HandValue(TwoPair, <<Three, Two, Seven>>)],
    [cards |-> <<Card(Hearts, Ace), Card(Diamonds, Two), Card(Clubs, Three), Card(Spades, Four),
                 Card(Hearts, Five), Card(Diamonds, Nine), Card(Clubs, King)>>,
     value |-> HandValue(Straight, <<Five>>)]>>

FixtureInit ==
  /\ pc = "input"
  /\ hand \in {Reorder(Fixtures[f].cards, q) : f \in DOMAIN Fixtures, q \in 1..NumFixtureOrders}
  /\ reordered = None
  /\ best = None
  /\ bestReordered = None
  /\ CmpUnused /\ InputUnused /\ TrialUnused /\ SimUnused /\ HttpUnused /\ ShareUnused
  /\ ParseUnused /\ RouteUnused /\ ComboUnused

SpecFixture == FixtureInit /\ [][EvalNext]_vars

(***************************************************************************)
(* EvaluateBestHand step by step on the known hands: the combination       *)
(* generator, one combination evaluated per step.                          *)
(***************************************************************************)
ComboInit ==
  /\ pc = "entry"
  /\ hand \in {Reorder(Fixtures[f].cards, q) : f \in DOMAIN Fixtures, q \in 1..NumFixtureOrders}
  /\ reordered = None
  /\ bestReordered = None
  /\ best = HandValue(HighCard, <<Two>>)
  /\ indexes = <<0, 1, 2, 3, 4>>
  /\ visited = <<>>
  /\ CmpUnused /\ InputUnused /\ TrialUnused /\ SimUnused /\ HttpUnused /\ ShareUnused
  /\ ParseUnused /\ RouteUnused

comboFixed == UNCHANGED <<hand, reordered, bestReordered, cmpVars, inputVars, trialVars, simVars,
                          httpVars, shareVars, parseVars, routeVars>>

\* best = evalCombo()
EvalFirst ==
  /\ pc = "entry"
  /\ Len(hand) = comboN
  /\ pc' = "loop"
  /\ best' = evalCombo(hand, indexes)
  /\ visited' = Append(visited, indexes)
  /\ UNCHANGED indexes
  /\ comboFixed

\* one test of the loop condition next(), and the body if it holds
NextCombo ==
  /\ pc = "loop"
  /\ \E nx \in {next(indexes)} :
       IF nx.ok
       THEN /\ indexes' = nx.indexes
            /\ visited' = Append(visited, nx.indexes)
            /\ \E hv \in {evalCombo(hand, nx.indexes)} :
                 best' = IF CompareHandValues(hv, best) > 0 THEN hv ELSE best
            /\ UNCHANGED pc
       ELSE /\ pc' = "returned"
            /\ UNCHANGED <<indexes, visited, best>>
  /\ comboFixed

ComboNext == EvalFirst \/ NextCombo

SpecCombo == ComboInit /\ [][ComboNext]_vars

(***************************************************************************)
(* Inputs of the comparator: the values evaluate5 gives three 5-card       *)
(* hands, each 5 of the first 6 cards of one layout from one of            *)
(* NumCmpStarts starting points.  Hands that share four cards are the      *)
(* ones whose values agree in category and leading kickers.                *)
(***************************************************************************)
NumCmpStarts == 4

\* the 5-card hands got by leaving one card out of the first 6 of a window
FiveOfSix(w) == {Without(SubSeq(w, 1, comboK + 1), {k}) : k \in 1..(comboK + 1)}

FiveCardTriples ==
  UNION {FiveOfSix(Window(o, a)) \X FiveOfSix(Window(o, a)) \X FiveOfSix(Window(o, a)) :
           o \in 0..(NumOrders - 1),
           a \in {(5 * i) % DeckSize : i \in 0..(NumCmpStarts - 1)}}

CmpInit ==
  /\ pc = "input"
  /\ fives \in FiveCardTriples
  /\ values = None
  /\ cmp = None
  /\ EvalUnused /\ InputUnused /\ TrialUnused /\ SimUnused /\ HttpUnused /\ ShareUnused
  /\ ParseUnused /\ RouteUnused /\ ComboUnused

Compare ==
  /\ pc = "input"
  /\ pc' = "compared"
  /\ LET a == evaluate5(fives[1])
         b == evaluate5(fives[2])
         c == evaluate5(fives[3])
     IN /\ values' = <<a, b, c>>
        /\ cmp' = [aa |-> CompareHandValues(a, a),
                   ab |-> CompareHandValues(a, b),
                   ba |-> CompareHandValues(b, a),
                   bc |-> CompareHandValues(b, c),
                   ac |-> CompareHandValues(a, c),
                   byLength |-> \/ lengthRuleReached(a, b)
                                \/ lengthRuleReached(b, a)
                                \/ lengthRuleReached(b, c)
                                \/ lengthRuleReached(a, c)]
  /\ UNCHANGED <<fives, evalVars, inputVars, trialVars, simVars, httpVars, shareVars,
                 parseVars, routeVars, comboVars>>

CmpNext == Compare

SpecCmp == CmpInit /\ [][CmpNext]_vars

(***************************************************************************)
(* Straights as inputs of the comparator: the wheel, in one of             *)
(* NumWheelOrders orders and one of the suit patterns, against the         *)
(* straights with top rank Six to Ace in a pattern of the same kind.       *)
(***************************************************************************)
NumWheelOrders == 4
NumSuitSteps == 2

\* suit pattern: card i has suit (o + m * i) % 4; m = 0 is one suit for all
SuitPattern(o, m) == [i \in 1..comboK |-> suits[((o + m * i) % 4) + 1]]

\* rank `top` and the four below it, the Ace standing below the Two
RunRanks(top) ==
  [i \in 1..comboK |-> IF top - (i - 1) = 1 THEN Ace ELSE top - (i - 1)]

StraightHand(top, o, m) ==
  LET rs == RunRanks(top)
      pat == SuitPattern(o, m)
  IN [i \in 1..comboK |-> Card(pat[i], rs[i])]

WheelTriples ==
  {<<Reorder(StraightHand(Five, o, m), p), StraightHand(top, o2, m), StraightHand(Five, o2, m)>> :
     o \in 0..3, o2 \in 0..1, m \in 0..(NumSuitSteps - 1), p \in 1..NumWheelOrders,
     top \in Six..Ace}

WheelInit ==
  /\ pc = "input"
  /\ fives \in WheelTriples
  /\ values = None
  /\ cmp = None
  /\ EvalUnused /\ InputUnused /\ TrialUnused /\ SimUnused /\ HttpUnused /\ ShareUnused
  /\ ParseUnused /\ RouteUnused /\ ComboUnused

SpecWheel == WheelInit /\ [][CmpNext]_vars

(***************************************************************************)
(* evaluate5 on its own: 5 distinct cards whose ranks are any 5 of         *)
(* FiveRanks in any order, in one of NumSuitSteps suit patterns, together  *)
(* with the cards of the same ranks in one of NumResuits other suit        *)
(* patterns.                                                               *)
(***************************************************************************)
NumResuits == 2

\* the ranks of the wheel and of the Six-high straight
FiveRanks == {Two, Three, Four, Five, Six, Ace}

distinctCards(cards) == \A i, j \in DOMAIN cards : cards[i] = cards[j] => i = j

Suited(rs, o, m) == [i \in 1..comboK |-> Card(SuitPattern(o, m)[i], rs[i])]

FiveInit ==
  /\ pc = "input"
  /\ \E rs \in [1..comboK -> FiveRanks], m \in 0..(NumSuitSteps - 1), o2 \in 1..NumResuits,
        m2 \in 0..(NumSuitSteps - 1) :
       /\ fives = <<Suited(rs, 0, m), Suited(rs, o2, m2)>>
       /\ distinctCards(fives[1])
       /\ distinctCards(fives[2])
  /\ values = None
  /\ cmp = None
  /\ EvalUnused /\ InputUnused /\ TrialUnused /\ SimUnused /\ HttpUnused /\ ShareUnused
  /\ ParseUnused /\ RouteUnused /\ ComboUnused

Classify ==
  /\ pc = "input"
  /\ pc' = "classified"
  /\ values' = <<evaluate5(fives[1]), evaluate5(fives[2])>>
  /\ UNCHANGED <<fives, cmp, evalVars, inputVars, trialVars, simVars, httpVars, shareVars,
                 parseVars, routeVars, comboVars>>

FiveNext == Classify

SpecFive == FiveInit /\ [][FiveNext]_vars

(***************************************************************************)
(* Inputs of the simulator.  SimulateEquity and simulateOnce take what the  *)
(* HTTP handler lets through: 2 hole cards, 0, 3, 4 or 5 community cards,  *)
(* any opponent count from 1 up, and cards that need not be distinct.      *)
(***************************************************************************)
MaxOpponents == 2
NumSeeds == 3
NumShuffles == 2

\* the most opponents a deck of 52 - 2 hole - 5 board cards can seat
DeckCapacity == (DeckSize - 2 - 5) \div 2

Heroes ==
  {<<Card(Hearts, Ace), Card(Hearts, King)>>,
   <<Card(Spades, Two), Card(Diamonds, Seven)>>}

\* the last card of the 5-card board is also the first hero's first card
Communities ==
  {<<>>,
   <<Card(Hearts, Queen), Card(Hearts, Jack), Card(Hearts, Ten)>>,
   <<Card(Hearts, Queen), Card(Hearts, Jack), Card(Hearts, Ten), Card(Clubs, Two)>>,
   <<Card(Hearts, Queen), Card(Hearts, Jack), Card(Hearts, Ten), Card(Clubs, Two),
     Card(Hearts, Ace)>>}

\* a 5-card board that shares no card with a hero
CompleteBoard ==
  <<Card(Spades, Nine), Card(Diamonds, Eight), Card(Clubs, Five), Card(Diamonds, Four),
    Card(Clubs, Three)>>

\* a 5-card board that is a straight flush by itself
StraightFlushBoard ==
  <<Card(Hearts, Queen), Card(Hearts, Jack), Card(Hearts, Ten), Card(Hearts, Nine),
    Card(Hearts, Eight)>>

TrialCommunities == Communities \cup {CompleteBoard, StraightFlushBoard}

OppCounts == (1..MaxOpponents) \cup {DeckCapacity, DeckCapacity + 1}

TrialInit ==
  /\ pc = "input"
  /\ heroHole \in Heroes
  /\ community \in TrialCommunities
  /\ numOpponents \in OppCounts
  /\ rng \in [seed : 0..(NumSeeds - 1), n : 0..(NumShuffles - 1)]
  /\ trial = None
  /\ EvalUnused /\ CmpUnused /\ SimUnused /\ HttpUnused /\ ShareUnused
  /\ ParseUnused /\ RouteUnused /\ ComboUnused

\* one call of simulateOnce on the deck SimulateEquity hands it
RunTrial ==
  /\ pc = "input"
  /\ pc' = "tallied"
  /\ trial' = simulateOnce(rng, heroHole, community, filterDeck(heroHole, community),
                           numOpponents)
  /\ UNCHANGED <<rng, inputVars, evalVars, cmpVars, simVars, httpVars, shareVars,
                 parseVars, routeVars, comboVars>>

TrialNext == RunTrial

SpecTrial == TrialInit /\ [][TrialNext]_vars

(***************************************************************************)
(* SimulateEquity: validation, the remaining deck, the fan-out to worker   *)
(* goroutines and the merge of their partial results; and handleSimulate,  *)
(* the HTTP handler that calls it (Spec).                                  *)
(***************************************************************************)
MaxTrials == 5
MaxClock == 1

\* the size of the worker pool
PoolSize == 4

\* inputs of a call: the valid ones and one malformed value of each kind
CallHeroes == {<<Card(Hearts, Ace), Card(Hearts, King)>>, <<Card(Hearts, Ace)>>}
CallCommunities == Communities \cup {<<Card(Hearts, Queen), Card(Hearts, Jack)>>}
CallOppCounts == (0..MaxOpponents) \cup {DeckCapacity + 1}

\* the three flags simulateOnce returns for trial number n of a worker whose
\* source has seed s
flagsOf(h, c, k, f, s, n) ==
  LET t == simulateOnce([seed |-> s, n |-> n], h, c, f, k)
  IN [heroWin |-> t.heroWin, villainWin |-> t.villainWin, tie |-> t.tie]

\* the flags of trials n, n + 1, .. of a worker whose source has seed s
RECURSIVE flagsFrom(_, _, _, _, _, _, _)
flagsFrom(h, c, k, f, s, n, maxRuns) ==
  IF n >= maxRuns THEN <<>>
  ELSE <<flagsOf(h, c, k, f, s, n)>> \o flagsFrom(h, c, k, f, s, n + 1, maxRuns)

\* the same for the seeds s, s + 1, ..
RECURSIVE seedsFrom(_, _, _, _, _, _)
seedsFrom(h, c, k, f, s, maxRuns) ==
  IF s > MaxClock THEN <<>>
  ELSE <<flagsFrom(h, c, k, f, s, 0, maxRuns)>> \o seedsFrom(h, c, k, f, s + 1, maxRuns)

\* The flags simulateOnce returns for each trial a worker of this call can
\* run: trialFlags[s + 1][n + 1] for trial number n of a worker whose source
\* has seed s.  A trial is a function of the source and of the call's inputs
\* alone, so the flags are worked out once, when the call starts.
trialFlags(h, c, k, f, maxRuns) == seedsFrom(h, c, k, f, 0, maxRuns)

\* mutant: a villain win is not counted
tally_DropsVillainWin(local, t) ==
  [HeroWins |-> local.HeroWins + (IF t.heroWin THEN 1 ELSE 0),
   VillainWins |-> local.VillainWins,
   Ties |-> local.Ties + (IF ~t.heroWin /\ ~t.villainWin /\ t.tie THEN 1 ELSE 0),
   TrialsRun |-> local.TrialsRun + 1]

\* the body of the worker's loop after simulateOnce has returned
tally(local, t) ==
  [HeroWins |-> local.HeroWins + (IF t.heroWin THEN 1 ELSE 0),
   VillainWins |-> local.VillainWins + (IF ~t.heroWin /\ t.villainWin THEN 1 ELSE 0),
   Ties |-> local.Ties + (IF ~t.heroWin /\ ~t.villainWin /\ t.tie THEN 1 ELSE 0),
   TrialsRun |-> local.TrialsRun + 1]

\* the worker's loop from trial i on
RECURSIVE runTrials(_, _, _, _)
runTrials(seed, trialsForWorker, i, local) ==
  IF i >= trialsForWorker THEN local
  ELSE runTrials(seed, trialsForWorker, i + 1,
                 tally(local, outcomes[seed + 1][i + 1]))

\* mutant: every worker is given the remainder
trialsFor_RemainderToAll(w, t, n) == (t \div n) + (t % n)

\* tw: trialsPerWorker, plus remaining for worker 0
trialsFor(w, t, n) == (t \div n) + (IF w = 0 THEN t % n ELSE 0)

\* mutant: only hero's cards are taken out of the deck
remainingDeck_HeroOnly(h, c) == filterDeck(h, <<>>)

remainingDeck(h, c) == filterDeck(h, c)

\* the locals of SimulateEquity before its first statement
SimulateEquityEntry ==
  /\ deck = <<>>
  /\ filtered = <<>>
  /\ workers = 0
  /\ spawned = 0
  /\ goroutine = <<>>
  /\ clock = 0
  /\ results = <<>>
  /\ final = ZeroResult
  /\ received = 0
  /\ failure = None
  /\ outcomes = <<>>

\* SimulateEquity called by a caller of the package
CallInit ==
  /\ pc = "call"
  /\ heroHole \in CallHeroes
  /\ community \in CallCommunities
  /\ numOpponents \in CallOppCounts
  /\ trials \in (-1)..MaxTrials
  /\ SimulateEquityEntry
  /\ request = [Method |-> "none"]
  /\ response = <<>>
  /\ EvalUnused /\ CmpUnused /\ TrialUnused /\ ShareUnused
  /\ ParseUnused /\ RouteUnused /\ ComboUnused

\* a request routed to handleSimulate
MaxRequestTrials == 2

code(s, r) == <<s, r>>

RequestHoles ==
  {<<code("H", "A"), code("H", "K")>>,
   <<code("H", "A")>>,
   <<code("H", "A"), code("H", "1")>>}

RequestCommunities ==
  {<<>>,
   <<code("H", "Q"), code("H", "J"), code("H", "T")>>,
   <<code("H", "Q"), code("H", "J")>>,
   <<code("H", "Q"), code("h", "J"), code("H", "T")>>}

Requests ==
  {[Method |-> "GET", Decodes |-> TRUE, Hole |-> <<>>, Community |-> <<>>,
    NumOpponents |-> 0, Trials |-> 0],
   [Method |-> "POST", Decodes |-> FALSE, Hole |-> <<>>, Community |-> <<>>,
    NumOpponents |-> 0, Trials |-> 0]}
    \cup [Method : {"POST"}, Decodes : {TRUE}, Hole : RequestHoles,
          Community : RequestCommunities, NumOpponents : 0..1,
          Trials : (-1)..MaxRequestTrials]

\* http.Error(w, message, status), or w.WriteHeader(status) with no body
httpError(status, message) == [status |-> status, message |-> message]

\* parseCards: the cards of the codes, or the first error
RECURSIVE parseCards(_)
parseCards(strs) ==
  IF strs = <<>> THEN [cs |-> <<>>, err |-> "ok"]
  ELSE LET c == ParseCard(Head(strs))
           rest == parseCards(Tail(strs))
       IN IF c.err # "ok" THEN [cs |-> <<>>, err |-> c.err]
          ELSE IF rest.err # "ok" THEN rest
          ELSE [cs |-> <<c.card>> \o rest.cs, err |-> "ok"]

\* mutant: the trial count is not validated
rejection_NoTrialsCheck(req) ==
  LET hole == parseCards(req.Hole)
      comm == parseCards(req.Community)
  IN IF req.Method # "POST" THEN httpError(405, "")
     ELSE IF ~req.Decodes THEN httpError(400, "invalid JSON")
     ELSE IF Len(req.Hole) # 2 THEN httpError(400, "hero hole must be 2 cards")
     ELSE IF Len(req.Community) \notin {0, 3, 4, 5}
     THEN httpError(400, "community must be 0, 3, 4, or 5 cards")
     ELSE IF req.NumOpponents < 1 THEN httpError(400, "numOpponents must be >= 1")
     ELSE IF hole.err # "ok" THEN httpError(400, "invalid hero hole: " \o hole.err)
     ELSE IF comm.err # "ok" THEN httpError(400, "invalid community: " \o comm.err)
     ELSE httpError(0, "")

\* the checks of handleSimulate before its call of SimulateEquity, in their
\* order: the error response of the first that fails, status 0 if none does
rejection(req) ==
  LET hole == parseCards(req.Hole)
      comm == parseCards(req.Community)
  IN IF req.Method # "POST" THEN httpError(405, "")
     ELSE IF ~req.Decodes THEN httpError(400, "invalid JSON")
     ELSE IF Len(req.Hole) # 2 THEN httpError(400, "hero hole must be 2 cards")
     ELSE IF Len(req.Community) \notin {0, 3, 4, 5}
     THEN httpError(400, "community must be 0, 3, 4, or 5 cards")
     ELSE IF req.NumOpponents < 1 THEN httpError(400, "numOpponents must be >= 1")
     ELSE IF req.Trials <= 0 THEN httpError(400, "trials must be > 0")
     ELSE IF hole.err # "ok" THEN httpError(400, "invalid hero hole: " \o hole.err)
     ELSE IF comm.err # "ok" THEN httpError(400, "invalid community: " \o comm.err)
     ELSE httpError(0, "")

RequestInit ==
  /\ pc = "request"
  /\ request \in Requests
  /\ response = <<>>
  /\ heroHole = <<>>
  /\ community = <<>>
  /\ numOpponents = 0
  /\ trials = 0
  /\ SimulateEquityEntry
  /\ EvalUnused /\ CmpUnused /\ TrialUnused /\ ShareUnused
  /\ ParseUnused /\ RouteUnused /\ ComboUnused

Init == CallInit \/ RequestInit

\* mutant: the number of opponents is not validated
Call_NoOpponentCheck ==
  /\ pc = "call"
  /\ IF Len(heroHole) # 2
     THEN /\ pc' = "panicked"
          /\ failure' = "heroHole must have length 2"
          /\ UNCHANGED <<deck, filtered, workers, outcomes>>
     ELSE IF Len(community) \notin {0, 3, 4, 5}
     THEN /\ pc' = "panicked"
          /\ failure' = "community must be 0, 3, 4, or 5 cards"
          /\ UNCHANGED <<deck, filtered, workers, outcomes>>
     ELSE IF trials <= 0
     THEN /\ pc' = "returned"
          /\ UNCHANGED <<deck, filtered, workers, failure, outcomes>>
     ELSE /\ pc' = "spawn"
          /\ deck' = FullDeck
          /\ filtered' = remainingDeck(heroHole, community)
          /\ workers' = IF trials < PoolSize THEN trials ELSE PoolSize
          /\ outcomes' = trialFlags(heroHole, community, numOpponents, filtered',
                                    trialsFor(0, trials, workers'))
          /\ UNCHANGED failure
  /\ UNCHANGED <<trials, spawned, goroutine, clock, results, final, received>>
  /\ UNCHANGED <<inputVars, evalVars, cmpVars, trialVars, httpVars, shareVars,
                 parseVars, routeVars, comboVars>>

\* SimulateEquity up to the spawn loop: the three panics, the early return
\* for trials <= 0, the remaining deck and the size of the pool
Call ==
  /\ pc = "call"
  /\ IF Len(heroHole) # 2
     THEN /\ pc' = "panicked"
          /\ failure' = "heroHole must have length 2"
          /\ UNCHANGED <<deck, filtered, workers, outcomes>>
     ELSE IF Len(community) \notin {0, 3, 4, 5}
     THEN /\ pc' = "panicked"
          /\ failure' = "community must be 0, 3, 4, or 5 cards"
          /\ UNCHANGED <<deck, filtered, workers, outcomes>>
     ELSE IF numOpponents < 1
     THEN /\ pc' = "panicked"
          /\ failure' = "numOpponents must be >= 1"
          /\ UNCHANGED <<deck, filtered, workers, outcomes>>
     ELSE IF trials <= 0
     THEN /\ pc' = "returned"
          /\ UNCHANGED <<deck, filtered, workers, failure, outcomes>>
     ELSE /\ pc' = "spawn"
          /\ deck' = FullDeck
          /\ filtered' = remainingDeck(heroHole, community)
          /\ workers' = IF trials < PoolSize THEN trials ELSE PoolSize
          /\ outcomes' = trialFlags(heroHole, community, numOpponents, filtered',
                                    trialsFor(0, trials, workers'))
          /\ UNCHANGED failure
  /\ UNCHANGED <<trials, spawned, goroutine, clock, results, final, received>>
  /\ UNCHANGED <<inputVars, evalVars, cmpVars, trialVars, httpVars, shareVars,
                 parseVars, routeVars, comboVars>>

\* one round of the spawn loop: go func(tw)
Spawn ==
  /\ pc = "spawn"
  /\ spawned < workers
  /\ goroutine' = Append(goroutine,
                         [state |-> "started",
                          trialsForWorker |-> trialsFor(spawned, trials, workers)])
  /\ spawned' = spawned + 1
  /\ pc' = IF spawned + 1 < workers THEN "spawn" ELSE "collect"
  /\ UNCHANGED <<trials, deck, filtered, workers, clock, results, final, received, failure,
                 outcomes>>
  /\ UNCHANGED <<inputVars, evalVars, cmpVars, trialVars, httpVars, shareVars,
                 parseVars, routeVars, comboVars>>

\* The body of worker goroutine g: it seeds its own source from the clock,
\* runs its trials and sends its tally.  Between its start and its send the
\* goroutine reads the shared slices and writes only its own locals, so the
\* body is one step.  The goroutine keeps the seed it read and the tally it
\* sent.  The clock does not run backwards, and two readings may be the same
\* nanosecond.  The channel holds `workers` results, so the send never finds
\* it full.
Worker(g) ==
  /\ pc \in {"spawn", "collect"}
  /\ g \in 1..Len(goroutine)
  /\ goroutine[g].state = "started"
  /\ Len(results) < workers
  /\ \E seed \in clock..MaxClock :
       LET local == runTrials(seed, goroutine[g].trialsForWorker, 0, ZeroResult)
       IN /\ clock' = seed
          /\ results' = Append(results, local)
          /\ goroutine' = [goroutine EXCEPT ![g] =
                             [state |-> "done",
                              trialsForWorker |-> goroutine[g].trialsForWorker,
                              seed |-> seed,
                              local |-> local]]
  /\ UNCHANGED <<pc, trials, deck, filtered, workers, spawned, final, received, failure,
                 outcomes>>
  /\ UNCHANGED <<inputVars, evalVars, cmpVars, trialVars, httpVars, shareVars,
                 parseVars, routeVars, comboVars>>

\* mutant: the result received replaces the sum
Receive_Overwrites ==
  /\ pc = "collect"
  /\ received < workers
  /\ results # <<>>
  /\ final' = Head(results)
  /\ results' = Tail(results)
  /\ received' = received + 1
  /\ UNCHANGED <<pc, trials, deck, filtered, workers, spawned, goroutine, clock, failure,
                 outcomes>>
  /\ UNCHANGED <<inputVars, evalVars, cmpVars, trialVars, httpVars, shareVars,
                 parseVars, routeVars, comboVars>>

\* one round of the collecting loop: r := <-results; final += r
Receive ==
  /\ pc = "collect"
  /\ received < workers
  /\ results # <<>>
  /\ LET r == Head(results)
     IN final' = [HeroWins |-> final.HeroWins + r.HeroWins,
                  VillainWins |-> final.VillainWins + r.VillainWins,
                  Ties |-> final.Ties + r.Ties,
                  TrialsRun |-> final.TrialsRun + r.TrialsRun]
  /\ results' = Tail(results)
  /\ received' = received + 1
  /\ UNCHANGED <<pc, trials, deck, filtered, workers, spawned, goroutine, clock, failure,
                 outcomes>>
  /\ UNCHANGED <<inputVars, evalVars, cmpVars, trialVars, httpVars, shareVars,
                 parseVars, routeVars, comboVars>>

\* mutant: the orchestrator returns after the first result it receives
Return_AfterFirst ==
  /\ pc = "collect"
  /\ received >= 1
  /\ pc' = "returned"
  /\ UNCHANGED <<inputVars, evalVars, cmpVars, trialVars, simVars, httpVars, shareVars,
                 parseVars, routeVars, comboVars>>

\* return final
Return ==
  /\ pc = "collect"
  /\ received = workers
  /\ pc' = "returned"
  /\ UNCHANGED <<inputVars, evalVars, cmpVars, trialVars, simVars, httpVars, shareVars,
                 parseVars, routeVars, comboVars>>

\* handleSimulate up to its call of SimulateEquity
HandleSimulate ==
  /\ pc = "request"
  /\ LET rej == rejection(request)
     IN IF rej.status # 0
        THEN /\ pc' = "rejected"
             /\ response' = rej
             /\ UNCHANGED <<inputVars, trials>>
        ELSE /\ pc' = "call"
             /\ heroHole' = parseCards(request.Hole).cs
             /\ community' = parseCards(request.Community).cs
             /\ numOpponents' = request.NumOpponents
             /\ trials' = request.Trials
             /\ UNCHANGED response
  /\ UNCHANGED <<request, deck, filtered, workers, spawned, goroutine, clock, results, final,
                 received, failure, outcomes>>
  /\ UNCHANGED <<evalVars, cmpVars, trialVars, shareVars, parseVars, routeVars, comboVars>>

\* float64(count) / total * 100.0: the quotient as the pair of its terms; a
\* division by a total of 0 panics nowhere and yields NaN or an infinity
percent(count, total) ==
  [num |-> count * 100, den |-> total,
   float |-> IF total # 0 THEN "finite" ELSE IF count = 0 THEN "NaN" ELSE "Inf"]

\* handleSimulate after SimulateEquity has returned: the percentages, writeJSON
Respond ==
  /\ pc = "returned"
  /\ request.Method = "POST"
  /\ pc' = "responded"
  /\ LET total == final.TrialsRun
     IN response' = [status |-> 200,
                     total |-> total,
                     HeroWinPct |-> percent(final.HeroWins, total),
                     VillainWinPct |-> percent(final.VillainWins, total),
                     TiePct |-> percent(final.Ties, total),
                     TrialsRun |-> final.TrialsRun]
  /\ UNCHANGED <<request, inputVars, evalVars, cmpVars, trialVars, simVars, shareVars,
                 parseVars, routeVars, comboVars>>

Next ==
  \/ HandleSimulate
  \/ Call
  \/ Spawn
  \/ \E g \in 1..PoolSize : Worker(g)
  \/ Receive
  \/ Return
  \/ Respond

Spec == Init /\ [][Next]_vars

\* The same under fair scheduling: the Go scheduler runs every goroutine that
\* can run, so the orchestrator and each worker take the step they are at.
\* Call is enabled exactly where pc = "call", so weak fairness of Call is
\* written out with that guard in the place of ENABLED <<Call>>_vars.
Fairness ==
  /\ WF_vars(HandleSimulate)
  /\ ([]<>(pc # "call") \/ []<><<Call>>_vars)
  /\ WF_vars(Spawn)
  /\ \A g \in 1..PoolSize : WF_vars(Worker(g))
  /\ WF_vars(Receive)
  /\ WF_vars(Return)
  /\ WF_vars(Respond)

FairSpec == Spec /\ Fairness

(***************************************************************************)
(* SpecHttp: a request served by the mux of RegisterRoutes: the dispatch   *)
(* on the path, the CORS wrapper, handleEvaluate, handleWinner, and        *)
(* handleSimulate up to its call of SimulateEquity, which Spec follows     *)
(* further.                                                                *)
(***************************************************************************)
\* the patterns RegisterRoutes registers, and the handler of each
registered ==
  ("/healthz" :> "healthz") @@ ("/api/evaluate" :> "handleEvaluate")
    @@ ("/api/winner" :> "handleWinner") @@ ("/api/simulate" :> "handleSimulate")

\* the endpoints README.md lists, and the handler that does what it says of each
documented ==
  ("/api/evaluate" :> "handleEvaluate") @@ ("/api/equity" :> "handleSimulate")

\* http.ServeMux: a pattern without a trailing slash matches its path alone
mux(path) == IF path \in DOMAIN registered THEN registered[path] ELSE "NotFound"

HttpPaths == DOMAIN registered \cup DOMAIN documented
HttpMethods == {"GET", "POST", "OPTIONS"}

HttpHoles ==
  {<<code("S", "2"), code("D", "7")>>,
   <<code("S", "2")>>,
   <<code("S", "2"), code("d", "7")>>}

HttpOtherHoles ==
  {<<code("C", "A"), code("C", "K")>>,
   <<code("C", "A"), code("C", "K"), code("C", "Q")>>,
   <<code("C", "A"), code("C", "1")>>}

HttpCommunities ==
  {<<>>,
   <<code("H", "Q"), code("H", "J"), code("H", "T")>>,
   <<code("H", "Q"), code("H", "J"), code("H", "T"), code("C", "2"), code("D", "9")>>,
   <<code("H", "Q"), code("H", "J"), code("H", "T"), code("C", "2"), code("D", "X")>>,
   <<code("H", "Q"), code("H", "J"), code("H", "T"), code("C", "2"), code("D", "9"),
     code("D", "8")>>}

\* a decoded body: a field the JSON object lacks keeps its zero value
body(hole, comm, p1, p2, k, t) ==
  [Decodes |-> TRUE, Hole |-> hole, Community |-> comm, Player1Hole |-> p1,
   Player2Hole |-> p2, NumOpponents |-> k, Trials |-> t]

NoBody ==
  [Decodes |-> FALSE, Hole |-> <<>>, Community |-> <<>>, Player1Hole |-> <<>>,
   Player2Hole |-> <<>>, NumOpponents |-> 0, Trials |-> 0]

HttpBodies ==
  {NoBody}
    \cup {body(h, c, <<>>, <<>>, 0, 0) : h \in HttpHoles, c \in HttpCommunities}
    \cup {body(<<>>, c, p1, p2, 0, 0) : p1 \in HttpHoles, p2 \in HttpOtherHoles,
                                        c \in HttpCommunities}
    \cup {body(h, c, <<>>, <<>>, k, t) : h \in HttpHoles, c \in HttpCommunities,
                                         k \in 0..1, t \in 0..1}

at(path, method, b) ==
  [Path |-> path, Method |-> method, Decodes |-> b.Decodes, Hole |-> b.Hole,
   Community |-> b.Community, Player1Hole |-> b.Player1Hole,
   Player2Hole |-> b.Player2Hole, NumOpponents |-> b.NumOpponents, Trials |-> b.Trials]

\* every body POSTed to every path, and the other methods without a body
HttpRequests ==
  {at(p, "POST", b) : p \in HttpPaths, b \in HttpBodies}
    \cup {at(p, m, NoBody) : p \in HttpPaths, m \in HttpMethods}

HttpInit ==
  /\ pc = "serve"
  /\ request \in HttpRequests
  /\ response = <<>>
  /\ handler = None
  /\ calls = <<>>
  /\ heroHole = <<>>
  /\ community = <<>>
  /\ numOpponents = 0
  /\ trials = 0
  /\ SimulateEquityEntry
  /\ EvalUnused /\ CmpUnused /\ TrialUnused /\ ShareUnused /\ ParseUnused /\ ComboUnused

httpFixed == UNCHANGED <<request, inputVars, evalVars, cmpVars, trialVars, simVars, shareVars,
                         parseVars, comboVars>>

\* ServeMux.ServeHTTP, and withCORS around the three API handlers
Route ==
  /\ pc = "serve"
  /\ handler' = mux(request.Path)
  /\ IF handler' = "NotFound"
     THEN /\ pc' = "responded"
          /\ response' = httpError(404, "404 page not found")
     ELSE IF handler' = "healthz"
     THEN /\ pc' = "responded"
          /\ response' = httpError(200, "ok")
     ELSE IF request.Method = "OPTIONS"
     THEN /\ pc' = "responded"
          /\ response' = httpError(204, "")
     ELSE /\ pc' = CASE handler' = "handleEvaluate" -> "evaluate"
                     [] handler' = "handleWinner" -> "winner"
                     [] handler' = "handleSimulate" -> "request"
          /\ UNCHANGED response
  /\ UNCHANGED calls
  /\ httpFixed

categoryToString(cat) ==
  CASE cat = StraightFlush -> "Straight Flush"
    [] cat = FourOfAKind -> "Four of a Kind"
    [] cat = FullHouse -> "Full House"
    [] cat = Flush -> "Flush"
    [] cat = Straight -> "Straight"
    [] cat = ThreeOfAKind -> "Three of a Kind"
    [] cat = TwoPair -> "Two Pair"
    [] cat = OnePair -> "One Pair"
    [] OTHER -> "High Card"

ranksToStrings(rs) ==
  [i \in 1..Len(rs) |-> IF rs[i] \in Two..Ace THEN rankChar(rs[i]) ELSE "?"]

\* mutant: the count of 7 cards is not checked
evaluateRejection_NoSevenCheck(req) ==
  LET cards == parseCards(req.Hole \o req.Community)
  IN IF req.Method # "POST" THEN httpError(405, "")
     ELSE IF ~req.Decodes THEN httpError(400, "invalid JSON")
     ELSE IF Len(req.Hole) # 2 \/ Len(req.Community) < 0 \/ Len(req.Community) > 5
     THEN httpError(400, "invalid card counts")
     ELSE IF cards.err # "ok" THEN httpError(400, "invalid card: " \o cards.err)
     ELSE httpError(0, "")

\* the checks of handleEvaluate before its call of EvaluateBestHand, in their
\* order: the error response of the first that fails, status 0 if none does
evaluateRejection(req) ==
  LET cards == parseCards(req.Hole \o req.Community)
  IN IF req.Method # "POST" THEN httpError(405, "")
     ELSE IF ~req.Decodes THEN httpError(400, "invalid JSON")
     ELSE IF Len(req.Hole) # 2 \/ Len(req.Community) < 0 \/ Len(req.Community) > 5
     THEN httpError(400, "invalid card counts")
     ELSE IF cards.err # "ok" THEN httpError(400, "invalid card: " \o cards.err)
     ELSE IF Len(cards.cs) # 2 + Len(req.Community)
     THEN httpError(400, "invalid card count after parse")
     ELSE IF Len(cards.cs) # 7
     THEN httpError(400, "must supply exactly 2 hole cards and 5 community cards")
     ELSE httpError(0, "")

\* handleEvaluate; a panic of EvaluateBestHand ends the handler with no response
HandleEvaluate ==
  /\ pc = "evaluate"
  /\ LET rej == evaluateRejection(request)
         cards == parseCards(request.Hole \o request.Community).cs
     IN IF rej.status # 0
        THEN /\ pc' = "responded"
             /\ response' = rej
             /\ UNCHANGED calls
        ELSE /\ calls' = Append(calls, cards)
             /\ IF Len(cards) # comboN
                THEN /\ pc' = "panicked"
                     /\ UNCHANGED response
                ELSE /\ pc' = "responded"
                     /\ \E hv \in {EvaluateBestHand(cards)} :
                          response' = [status |-> 200,
                                       Category |-> categoryToString(hv.Category),
                                       Kickers |-> ranksToStrings(hv.Kickers)]
  /\ UNCHANGED handler
  /\ httpFixed

\* the checks of handleWinner before its calls of EvaluateBestHand
winnerRejection(req) ==
  LET p1 == parseCards(req.Player1Hole)
      p2 == parseCards(req.Player2Hole)
      comm == parseCards(req.Community)
  IN IF req.Method # "POST" THEN httpError(405, "")
     ELSE IF ~req.Decodes THEN httpError(400, "invalid JSON")
     ELSE IF Len(req.Player1Hole) # 2 \/ Len(req.Player2Hole) # 2 \/ Len(req.Community) # 5
     THEN httpError(400, "require 2 hole cards for each player and 5 community cards")
     ELSE IF p1.err # "ok" THEN httpError(400, "invalid player1 hole: " \o p1.err)
     ELSE IF p2.err # "ok" THEN httpError(400, "invalid player2 hole: " \o p2.err)
     ELSE IF comm.err # "ok" THEN httpError(400, "invalid community: " \o comm.err)
     ELSE httpError(0, "")

\* handleWinner
HandleWinner ==
  /\ pc = "winner"
  /\ LET rej == winnerRejection(request)
         comm == parseCards(request.Community).cs
         p1Seven == parseCards(request.Player1Hole).cs \o comm
         p2Seven == parseCards(request.Player2Hole).cs \o comm
     IN IF rej.status # 0
        THEN /\ response' = rej
             /\ UNCHANGED calls
        ELSE /\ calls' = calls \o <<p1Seven, p2Seven>>
             /\ \E p1Best \in {EvaluateBestHand(p1Seven)}, p2Best \in {EvaluateBestHand(p2Seven)} :
                  \E c \in {CompareHandValues(p1Best, p2Best)} :
                    response' = [status |-> 200,
                                 Winner |-> IF c > 0 THEN "player1"
                                            ELSE IF c < 0 THEN "player2" ELSE "tie"]
  /\ pc' = "responded"
  /\ UNCHANGED handler
  /\ httpFixed

HttpNext == Route \/ HandleEvaluate \/ HandleWinner \/ HandleSimulate

SpecHttp == HttpInit /\ [][HttpNext]_vars

(***************************************************************************)
(* SpecParse: ParseCard on strings of bytes                                *)
(***************************************************************************)
MaxTextLen == 3

\* the bytes the strings are made of: the suit letters, the rank symbols,
\* two lowercase letters, a digit that is no rank, a space and a separator
TextBytes ==
  {"H", "D", "C", "S", "2", "3", "4", "5", "6", "7", "8", "9", "T", "J", "Q", "K", "A",
   "h", "a", "1", " ", "-"}

RECURSIVE Texts(_)
Texts(n) ==
  IF n = 0 THEN {<<>>}
  ELSE Texts(n - 1) \cup {Append(t, b) : t \in {u \in Texts(n - 1) : Len(u) = n - 1},
                                         b \in TextBytes}

ParseInit ==
  /\ pc = "parse"
  /\ text \in Texts(MaxTextLen)
  /\ parse = None
  /\ EvalUnused /\ CmpUnused /\ InputUnused /\ TrialUnused /\ SimUnused /\ HttpUnused
  /\ ShareUnused /\ RouteUnused /\ ComboUnused

\* ParseCard(text)
Parse ==
  /\ pc = "parse"
  /\ parse' = ParseCard(text)
  /\ pc' = "parsed"
  /\ UNCHANGED <<text, evalVars, cmpVars, inputVars, trialVars, simVars, httpVars, shareVars,
                 routeVars, comboVars>>

ParseNext == Parse

SpecParse == ParseInit /\ [][ParseNext]_vars

(***************************************************************************)
(* SpecShare: the memory the worker goroutines of one call touch.  A slice *)
(* is a window [buf, len, cap] on a backing array; heap holds the arrays,  *)
(* named by the goroutine that allocated them (0 is the goroutine of       *)
(* SimulateEquity) and the variable they were allocated for.  Every load   *)
(* and store of a worker is logged in writes.                              *)
(***************************************************************************)
MaxShareTrials == 5

Orchestrator == 0

slice(buf, len, cap) == [buf |-> buf, len |-> len, cap |-> cap]

\* []Card{} and the zero value of a slice variable
NilSlice == slice(<<Orchestrator, "nil">>, 0, 0)

\* the arguments every worker's closure captures
heroHoleArg == slice(<<Orchestrator, "heroHole">>, Len(heroHole), Len(heroHole))
communityArg == slice(<<Orchestrator, "community">>, Len(community), Len(community))
\* filtered := make([]Card, 0, len(deck)), then one append per card kept
filteredArg == slice(<<Orchestrator, "filtered">>, Len(filtered), DeckSize)

SharedBufs == {heroHoleArg.buf, communityArg.buf, filteredArg.buf}

WorkerBufNames == {"tmp", "simCommunity", "heroSeven", "oppHole", "oppSeven", "hand", "local"}

load(g, buf) == [by |-> g, op |-> "load", buf |-> buf]
store(g, buf) == [by |-> g, op |-> "store", buf |-> buf]

\* the elements a slice shows of its array
elems(h, s) == SubSeq(h[s.buf], 1, s.len)

\* make([]Card, n): a new array of goroutine g
make(g, name, n) == slice(<<g, name>>, n, n)

\* append(s, xs...): in place when the capacity allows, else into a new array
\* of goroutine g (of at least the length needed; the allocator's rounding of
\* the capacity is left out)
append(g, name, s, n) ==
  IF n = 0 THEN s
  ELSE IF s.len + n <= s.cap THEN slice(s.buf, s.len + n, s.cap)
  ELSE slice(<<g, name>>, s.len + n, IF 2 * s.cap > s.len + n THEN 2 * s.cap ELSE s.len + n)

ShareInit ==
  /\ pc = "workers"
  /\ heroHole \in {<<Card(Hearts, Ace), Card(Hearts, King)>>}
  /\ community \in {<<>>, <<Card(Hearts, Queen), Card(Hearts, Jack), Card(Hearts, Ten)>>,
                    CompleteBoard}
  /\ numOpponents \in 1..MaxOpponents
  /\ trials \in 1..MaxShareTrials
  /\ deck = FullDeck
  /\ filtered = remainingDeck(heroHole, community)
  /\ workers = IF trials < PoolSize THEN trials ELSE PoolSize
  /\ heap = [b \in SharedBufs \cup ((1..workers) \X WorkerBufNames) |->
               IF b = heroHoleArg.buf THEN heroHole
               ELSE IF b = communityArg.buf THEN community
               ELSE IF b = filteredArg.buf THEN filtered
               ELSE <<>>]
  /\ frame = [g \in 1..workers |->
                [at |-> "loop", i |-> 0, trialsForWorker |-> trialsFor(g - 1, trials, workers),
                 tmp |-> NilSlice, simCommunity |-> NilSlice, local |-> ZeroResult]]
  /\ writes = {}
  /\ spawned = None /\ goroutine = None /\ clock = None /\ results = None
  /\ final = None /\ received = None /\ failure = None /\ outcomes = None
  /\ EvalUnused /\ CmpUnused /\ TrialUnused /\ HttpUnused
  /\ ParseUnused /\ RouteUnused /\ ComboUnused

shareFixed ==
  UNCHANGED <<pc, evalVars, cmpVars, inputVars, trialVars, simVars, httpVars,
              parseVars, routeVars, comboVars>>

\* mutant: simulateOnce shuffles the deck it was handed
ShuffleCopy_InPlace(g) ==
  /\ g <= workers
  /\ frame[g].at = "loop"
  /\ frame[g].i < frame[g].trialsForWorker
  /\ LET tmp == filteredArg
         shuffled == Shuffle([seed |-> g % NumSeeds, n |-> frame[g].i], elems(heap, tmp))
     IN /\ frame' = [frame EXCEPT ![g].at = "shuffled", ![g].tmp = tmp]
        /\ heap' = [heap EXCEPT ![tmp.buf] = shuffled \o SubSeq(@, tmp.len + 1, Len(@))]
        /\ writes' = writes \cup {load(g, tmp.buf), store(g, tmp.buf)}
  /\ shareFixed

\* tmp := make([]Card, len(deck)); copy(tmp, deck); rng.Shuffle(len(tmp), swap):
\* the swaps are stores into tmp's array
ShuffleCopy(g) ==
  /\ g <= workers
  /\ frame[g].at = "loop"
  /\ frame[g].i < frame[g].trialsForWorker
  /\ LET tmp == make(g, "tmp", filteredArg.len)
         shuffled == Shuffle([seed |-> g % NumSeeds, n |-> frame[g].i],
                             elems(heap, filteredArg))
     IN /\ frame' = [frame EXCEPT ![g].at = "shuffled", ![g].tmp = tmp]
        /\ heap' = [heap EXCEPT ![tmp.buf] = shuffled]
        /\ writes' = writes \cup {load(g, filteredArg.buf), load(g, tmp.buf),
                                  store(g, tmp.buf)}
  /\ shareFixed

\* The rest of simulateOnce and the counting of its result.
\* simCommunity := make(len(community)); copy; append toDraw cards of tmp.
\* heroSeven, EvaluateBestHand(heroSeven) and the opponents loop: every 7-card
\* hand is built in a new array by append([]Card{}, ...), every 5-card hand in
\* a new array by evalCombo, and evaluate5 sorts that array in place.  Then
\* the trial is counted in local, and i++.  (heroBest and opps are bound by
\* \E so that they are worked out once.)
PlayHands(g) ==
  /\ g <= workers
  /\ frame[g].at = "shuffled"
  /\ LET tmp == frame[g].tmp
         toDraw == 5 - communityArg.len
         made == make(g, "simCommunity", communityArg.len)
         simCommunity == append(g, "simCommunity", made, toDraw)
         board == elems(heap, communityArg) \o SubSeq(heap[tmp.buf], 1, toDraw)
         heroSeven == append(g, "heroSeven", append(g, "heroSeven", NilSlice, heroHoleArg.len),
                             simCommunity.len)
         heroCards == elems(heap, heroHoleArg) \o board
     IN \E heroBest \in {EvaluateBestHand(heroCards)},
           opps \in {dealOpponents(elems(heap, tmp), board, numOpponents, 0,
                                   [drawIdx |-> toDraw, oppHoles |-> <<>>, oppBests |-> <<>>])} :
          LET dealt == Len(opps.oppHoles)
              oppHole == make(g, "oppHole", 2)
              oppSeven == append(g, "oppSeven", append(g, "oppSeven", NilSlice, oppHole.len),
                                 simCommunity.len)
              lastSeven == IF dealt > 0 THEN opps.oppHoles[dealt] \o board ELSE heroCards
              five == make(g, "hand", comboK)
          IN /\ frame' = [frame EXCEPT ![g].at = "loop", ![g].i = @ + 1,
                                       ![g].simCommunity = simCommunity,
                                       ![g].local = tally(@, outcome(heroBest, opps.oppBests))]
             /\ heap' = [heap EXCEPT
                           ![simCommunity.buf] = board,
                           ![heroSeven.buf] = heroCards,
                           ![oppHole.buf] = IF dealt > 0 THEN opps.oppHoles[dealt] ELSE @,
                           ![oppSeven.buf] = IF dealt > 0 THEN lastSeven ELSE @,
                           ![five.buf] = sortByRankDesc(SubSeq(lastSeven, comboN - comboK + 1, comboN))]
             /\ writes' = writes \cup {load(g, communityArg.buf), store(g, made.buf),
                                       store(g, simCommunity.buf), load(g, simCommunity.buf),
                                       load(g, heroHoleArg.buf),
                                       store(g, heroSeven.buf), load(g, heroSeven.buf),
                                       store(g, five.buf), load(g, five.buf),
                                       load(g, <<g, "local">>), store(g, <<g, "local">>)}
                                 \cup (IF toDraw > 0 \/ dealt > 0 THEN {load(g, tmp.buf)} ELSE {})
                                 \cup (IF dealt > 0
                                       THEN {store(g, oppHole.buf), load(g, oppHole.buf),
                                             store(g, oppSeven.buf), load(g, oppSeven.buf)}
                                       ELSE {})
  /\ shareFixed

\* results <- local: the value of local is copied into the channel
Send(g) ==
  /\ g <= workers
  /\ frame[g].at = "loop"
  /\ frame[g].i >= frame[g].trialsForWorker
  /\ frame' = [frame EXCEPT ![g].at = "sent"]
  /\ writes' = writes \cup {load(g, <<g, "local">>)}
  /\ UNCHANGED heap
  /\ shareFixed

ShareNext ==
  \E g \in 1..PoolSize :
    \/ ShuffleCopy(g)
    \/ PlayHands(g)
    \/ Send(g)

SpecShare == ShareInit /\ [][ShareNext]_vars

(***************************************************************************)
(* Claims about the best-hand evaluator (SpecEval)                         *)
(***************************************************************************)
FiveSubsets == {S \in SUBSET (1..comboN) : Cardinality(S) = comboK}

\* the classifications of all 21 five-card subsets of a 7-card hand
SubsetValues(h) == {evaluate5(Without(h, (1..comboN) \ S)) : S \in FiveSubsets}

\* C7: the value EvaluateBestHand returns for 7 distinct cards is the
\* classification of one of their 5-card subsets, and no 5-card subset has a
\* classification that CompareHandValues ranks strictly greater.
C7_BestOfAllSubsets ==
  pc = "evaluated" =>
    LET vals == SubsetValues(hand)
    IN /\ best \in vals
       /\ \A v \in vals : CompareHandValues(v, best) <= 0

\* the search replaced its first candidate, and the best subset is the wheel
C7_Witness ==
  /\ pc = "evaluated"
  /\ Cardinality({hand[i].Str : i \in 1..Len(hand)}) = comboN
  /\ CompareHandValues(best, evalCombo(hand, <<0, 1, 2, 3, 4>>)) > 0
  /\ best = HandValue(Straight, <<Five>>)

\* C8: two orderings of the same 7 distinct cards get the same category and
\* the same kicker sequence.
C8_OrderIndependent ==
  pc = "evaluated" =>
    /\ best.Category = bestReordered.Category
    /\ best.Kickers = bestReordered.Kickers

\* a genuinely different ordering of the same cards, evaluated to two pair
C8_Witness ==
  /\ pc = "evaluated"
  /\ reordered # hand
  /\ {reordered[i] : i \in 1..Len(reordered)} = {hand[i] : i \in 1..Len(hand)}
  /\ \A i \in 1..Len(hand) : reordered[i] # hand[i]
  /\ best.Category = TwoPair
  /\ bestReordered.Category = TwoPair

(***************************************************************************)
(* Claims about the comparator and the kicker sequences (SpecCmp)          *)
(***************************************************************************)
\* C9: on the values the evaluator produces CompareHandValues is a strict
\* total order: compare(a, a) = 0; compare(a, b) = -compare(b, a);
\* compare(a, b) = 0 only for equal category and equal kickers; and
\* compare(a, b) > 0 with compare(b, c) > 0 gives compare(a, c) > 0.
C9_StrictTotalOrder ==
  pc = "compared" =>
    /\ cmp.aa = 0
    /\ cmp.ab = 0 - cmp.ba
    /\ cmp.ab = 0 => /\ values[1].Category = values[2].Category
                     /\ values[1].Kickers = values[2].Kickers
    /\ (cmp.ab > 0 /\ cmp.bc > 0) => cmp.ac > 0

\* three values of one category, ordered a > b > c by a kicker after the first
C9_Witness ==
  /\ pc = "compared"
  /\ values[1].Category = values[2].Category
  /\ values[2].Category = values[3].Category
  /\ values[1].Kickers[1] = values[2].Kickers[1]
  /\ cmp.ab > 0
  /\ cmp.bc > 0
  /\ cmp.ac > 0

\* the declared kicker-sequence length of each category
KickerLen(cat) ==
  CASE cat = StraightFlush -> 1
    [] cat = FourOfAKind -> 2
    [] cat = FullHouse -> 2
    [] cat = Flush -> 5
    [] cat = Straight -> 1
    [] cat = ThreeOfAKind -> 3
    [] cat = TwoPair -> 3
    [] cat = OnePair -> 4
    [] cat = HighCard -> 5

\* C10: every HandValue the evaluator produces has the kicker-sequence length
\* of its category (Straight Flush 1, Four of a Kind 2, Full House 2, Flush 5,
\* Straight 1, Three of a Kind 3, Two Pair 3, One Pair 4, High Card 5), and
\* comparing two evaluator outputs never reaches the differing-length rule.
C10_KickerLengths ==
  pc = "compared" =>
    /\ \A i \in 1..3 : Len(values[i].Kickers) = KickerLen(values[i].Category)
    /\ ~cmp.byLength

\* two different one-pair hands of equal value: the comparator runs through
\* all four kickers and arrives at the length comparison
C10_Witness ==
  /\ pc = "compared"
  /\ fives[1] # fives[2]
  /\ values[1].Category = OnePair
  /\ values[2].Category = OnePair
  /\ cmp.ab = 0

(***************************************************************************)
(* Claims about one trial (SpecTrial)                                      *)
(***************************************************************************)
\* the cards left after the known ones are enough to complete the board and
\* deal two to each of the numOpponents opponents
EnoughCards ==
  Len(filterDeck(heroHole, community)) >= (5 - Len(community)) + 2 * numOpponents

\* hero's hole cards and the known community cards are pairwise distinct
DistinctInputs ==
  Cardinality({heroHole[i].Str : i \in DOMAIN heroHole}
                \cup {community[i].Str : i \in DOMAIN community})
    = Len(heroHole) + Len(community)

\* C3: every trial reports exactly one of the three outcomes, chosen by the
\* rule over all numOpponents opponents: villain win if some opponent's best
\* value is strictly greater than hero's, otherwise tie if some opponent's
\* equals hero's, otherwise hero win.
C3_RuleOverAllOpponents ==
  pc = "tallied" =>
    /\ Cardinality({f \in {"heroWin", "villainWin", "tie"} : trial[f]}) = 1
    /\ Len(trial.oppBests) = numOpponents
    /\ LET beats == \E k \in 1..numOpponents :
                      CompareHandValues(trial.oppBests[k], trial.heroBest) > 0
           ties == \E k \in 1..numOpponents :
                     CompareHandValues(trial.oppBests[k], trial.heroBest) = 0
       IN /\ trial.villainWin = beats
          /\ trial.tie = (~beats /\ ties)
          /\ trial.heroWin = (~beats /\ ~ties)

\* C4: a trial is never completed and tallied when the remaining deck is too
\* small to complete the board and deal every one of the numOpponents
\* opponents: that case is reported as a fatal error instead.
C4_NoTrialOnShortDeck ==
  pc = "tallied" => EnoughCards

\* C5: with distinct input cards and enough cards for all opponents, the
\* board is the known community cards followed by 5 - |community| drawn
\* cards, 5 in all; every opponent gets exactly 2 cards; and hero's hole
\* cards, the board and all opponents' hole cards are pairwise distinct.
C5_DealWithoutOverlap ==
  (pc = "tallied" /\ DistinctInputs /\ EnoughCards) =>
    LET board == trial.simCommunity
        dealt == heroHole \o board
                   \o [k \in 1..(2 * Len(trial.oppHoles)) |->
                         trial.oppHoles[(k + 1) \div 2][2 - (k % 2)]]
    IN /\ Len(board) = 5
       /\ SubSeq(board, 1, Len(community)) = community
       /\ SubSeq(board, Len(community) + 1, 5) = SubSeq(trial.tmp, 1, 5 - Len(community))
       /\ Len(trial.oppHoles) = numOpponents
       /\ \A k \in 1..Len(trial.oppHoles) : Len(trial.oppHoles[k]) = 2
       /\ Len(dealt) = 2 + 5 + 2 * numOpponents
       /\ Cardinality({dealt[k].Str : k \in 1..Len(dealt)}) = Len(dealt)

\* a trial from the flop that seats as many opponents as the deck allows
C5_Witness ==
  /\ pc = "tallied"
  /\ DistinctInputs
  /\ EnoughCards
  /\ Len(community) = 3
  /\ numOpponents = DeckCapacity
  /\ Len(trial.oppHoles) = DeckCapacity
  /\ trial.tmp # filterDeck(heroHole, community)

(***************************************************************************)
(* Claims about SimulateEquity (Spec)                                      *)
(***************************************************************************)
\* C1: the result a call returns satisfies
\* HeroWins + VillainWins + Ties = TrialsRun, whatever the trial count and
\* the interleaving of the workers.
C1_TalliesSumToTrialsRun ==
  pc = "returned" =>
    final.HeroWins + final.VillainWins + final.Ties = final.TrialsRun

\* a call with a full pool returned hero wins and villain wins
C1_Witness ==
  /\ pc = "returned"
  /\ workers = PoolSize
  /\ final.HeroWins > 0
  /\ final.VillainWins > 0
  /\ final.TrialsRun = MaxTrials

\* the sum of the trial counts handed to the goroutines
RECURSIVE sumTrialsForWorker(_)
sumTrialsForWorker(gs) ==
  IF gs = <<>> THEN 0 ELSE Head(gs).trialsForWorker + sumTrialsForWorker(Tail(gs))

\* C2: for T > 0 the call starts exactly min(4, T) workers; each is given
\* floor(T / workers) trials and the first alone is given the T mod workers
\* remainder as well; every worker runs at least one trial, the counts sum
\* to T, and the returned TrialsRun is T.
C2_WorkSplit ==
  (pc \in {"collect", "returned"} /\ trials > 0) =>
    /\ workers = (IF trials < 4 THEN trials ELSE 4)
    /\ Len(goroutine) = workers
    /\ \A g \in 1..Len(goroutine) :
         /\ goroutine[g].trialsForWorker
              = (trials \div workers) + (IF g = 1 THEN trials % workers ELSE 0)
         /\ goroutine[g].trialsForWorker >= 1
    /\ sumTrialsForWorker(goroutine) = trials
    /\ \A r \in 1..Len(results) : results[r].TrialsRun >= 1
    /\ pc = "returned" => final.TrialsRun = trials

\* a returned call whose trial count leaves a remainder over a full pool
C2_Witness ==
  /\ pc = "returned"
  /\ trials % PoolSize # 0
  /\ Len(goroutine) = PoolSize
  /\ goroutine[1].trialsForWorker > goroutine[2].trialsForWorker
  /\ final.TrialsRun = trials

\* the codes of the cards of a sequence
Codes(cards) == {cards[i].Str : i \in DOMAIN cards}

\* C6: FullDeck is 52 cards with pairwise distinct codes, one per suit/rank
\* pair; the remaining deck of a call is the 52 without the known hero-hole
\* and community cards: 52 - known cards, no duplicates, none of them known.
C6_DeckInvariant ==
  /\ Len(FullDeck) = 52
  /\ Cardinality(Codes(FullDeck)) = 52
  /\ \A s \in 0..3, r \in 2..14 :
       Cardinality({i \in DOMAIN FullDeck :
                      FullDeck[i].Suit = s /\ FullDeck[i].Rank = r}) = 1
  /\ pc \in {"spawn", "collect"} =>
       LET known == Codes(heroHole) \cup Codes(community)
       IN /\ deck = FullDeck
          /\ Len(filtered) = 52 - Cardinality(known)
          /\ Cardinality(Codes(filtered)) = Len(filtered)
          /\ Codes(filtered) \cap known = {}
          /\ Codes(filtered) \subseteq Codes(FullDeck)

\* a call from the turn: six known cards are out of the deck the workers use
C6_Witness ==
  /\ pc = "collect"
  /\ Len(community) = 4
  /\ Len(filtered) = 46
  /\ \E g \in 1..Len(goroutine) : goroutine[g].state = "done"

(***************************************************************************)
(* Claims about the wheel (SpecWheel)                                      *)
(***************************************************************************)
\* the ranks of a hand
RankSet(cards) == {cards[i].Rank : i \in DOMAIN cards}

\* the suits of a hand
SuitSet(cards) == {cards[i].Suit : i \in DOMAIN cards}

\* C11: five cards of ranks Ace, 2, 3, 4, 5 are a Straight, or a Straight
\* Flush when they share a suit, with the single kicker Five, and that value
\* compares strictly lower than every straight of the same category with top
\* rank Six to Ace.
C11_WheelIsLowestStraight ==
  (pc = "compared" /\ RankSet(fives[1]) = {Ace, Two, Three, Four, Five}) =>
    /\ values[1].Category
         = (IF Cardinality(SuitSet(fives[1])) = 1 THEN StraightFlush ELSE Straight)
    /\ values[1].Kickers = <<Five>>
    /\ (/\ values[2].Category = values[1].Category
        /\ RankSet(fives[2]) # {Ace, Two, Three, Four, Five}) =>
         /\ values[2].Kickers[1] \in Six..Ace
         /\ cmp.ab < 0
         /\ cmp.ba > 0

\* a wheel of mixed suits, not in rank order, below the Ace-high straight
C11_Witness ==
  /\ pc = "compared"
  /\ RankSet(fives[1]) = {Ace, Two, Three, Four, Five}
  /\ fives[1][1].Rank = Three
  /\ values[1] = HandValue(Straight, <<Five>>)
  /\ values[2] = HandValue(Straight, <<Ace>>)
  /\ cmp.ab < 0

(***************************************************************************)
(* Claims about the known hands (SpecFixture)                              *)
(***************************************************************************)
\* the cards of a hand, as a set
CardSet(cards) == {cards[i] : i \in DOMAIN cards}

\* C12: EvaluateBestHand returns the stated value for each known hand:
\* {HA,HK,HQ,HJ,HT,S2,S3} Straight Flush [Ace]; {H2,D2,C2,S2,H5,H6,H7} Four
\* of a Kind [Two, Seven]; {H2,D2,C3,S3,H5,D6,C7} Two Pair [Three, Two,
\* Seven]; {HA,D2,C3,S4,H5,D9,CK} Straight [Five].
C12_KnownHands ==
  pc = "evaluated" =>
    \A f \in DOMAIN Fixtures :
      CardSet(hand) = CardSet(Fixtures[f].cards) =>
        /\ best = Fixtures[f].value
        /\ bestReordered = Fixtures[f].value

\* the two-pair hand, given in the order it is written in
C12_Witness ==
  /\ pc = "evaluated"
  /\ hand = Fixtures[3].cards
  /\ <<hand[1].Str, hand[7].Str>> = <<formatCard(Hearts, Two), formatCard(Clubs, Seven)>>
  /\ best = HandValue(TwoPair, <<Three, Two, Seven>>)

(***************************************************************************)
(* Claims about the validation of a call (Spec)                            *)
(***************************************************************************)
\* the kinds of malformed input of the call under way
MalformedKinds ==
  (IF Len(heroHole) # 2 THEN {"hole"} ELSE {})
    \cup (IF Len(community) \notin {0, 3, 4, 5} THEN {"community"} ELSE {})
    \cup (IF numOpponents < 1 THEN {"opponents"} ELSE {})

\* the kind of malformed input a failure names
FailureKind(msg) ==
  CASE msg = "heroHole must have length 2" -> "hole"
    [] msg = "community must be 0, 3, 4, or 5 cards" -> "community"
    [] msg = "numOpponents must be >= 1" -> "opponents"
    [] OTHER -> "unknown"

\* C13: a call with a hero hole count other than 2, a community count not in
\* {0, 3, 4, 5} or an opponent count below 1 fails, with a failure that names
\* a kind its input is malformed in, a different failure for each kind; it
\* fails before any worker is started or any trial is run, and produces no
\* result and no partial tallies.
C13_FailsBeforeWorkers ==
  /\ (pc \notin {"request", "rejected", "call"} /\ MalformedKinds # {}) => pc = "panicked"
  /\ pc = "panicked" =>
       /\ FailureKind(failure) \in MalformedKinds
       /\ Cardinality(MalformedKinds) = 1 => MalformedKinds = {FailureKind(failure)}
       /\ spawned = 0 /\ workers = 0
       /\ goroutine = <<>>
       /\ results = <<>> /\ received = 0
       /\ final = ZeroResult
       /\ outcomes = <<>>
  /\ pc # "panicked" => failure = None

\* a call asking for trials failed on its opponent count alone
C13_Witness ==
  /\ pc = "panicked"
  /\ MalformedKinds = {"opponents"}
  /\ failure = "numOpponents must be >= 1"
  /\ trials > 0
  /\ goroutine = <<>>

(***************************************************************************)
(* Claims about a call for no trials and about the percentages (Spec)      *)
(***************************************************************************)
\* C14: a call with valid cards and opponents and a trial count of 0 or less
\* returns HeroWins, VillainWins, Ties and TrialsRun all 0 and starts no
\* worker; and wherever percentages are computed the TrialsRun they are
\* divided by is greater than 0.
C14_NoTrialsNoDivision ==
  /\ (pc \notin {"request", "rejected", "call"} /\ MalformedKinds = {} /\ trials <= 0) =>
       /\ pc = "returned"
       /\ final = SimulationResult(0, 0, 0, 0)
       /\ workers = 0 /\ spawned = 0 /\ goroutine = <<>> /\ results = <<>>
       /\ failure = None
  /\ pc = "responded" =>
       /\ response.status = 200
       /\ response.total > 0
       /\ \A f \in {"HeroWinPct", "VillainWinPct", "TiePct"} :
            response[f].den > 0 /\ response[f].float = "finite"

\* a call for a negative number of trials has returned the zero result
C14_Witness ==
  /\ pc = "returned"
  /\ trials < 0
  /\ numOpponents > 1
  /\ final.TrialsRun = 0
  /\ goroutine = <<>>

(***************************************************************************)
(* Claims about the workers' random sources (Spec)                         *)
(***************************************************************************)
\* the goroutines that have seeded their source
Seeded == {g \in 1..Len(goroutine) : goroutine[g].state = "done"}

\* C15: every worker's random source is seeded with a value different from
\* the seed of every other worker, so no two workers shuffle alike.
C15_DistinctSeeds ==
  \A g \in Seeded, h \in Seeded : g # h => goroutine[g].seed # goroutine[h].seed

(***************************************************************************)
(* Claims about the join of the workers (FairSpec, Spec)                   *)
(***************************************************************************)
\* the goroutines that have not sent their result yet
Running == {g \in 1..Len(goroutine) : goroutine[g].state = "started"}

\* C17: for valid inputs and T > 0, under fair scheduling the call returns;
\* each worker sends exactly one partial result, and is never blocked on the
\* send or on another worker; the orchestrator returns only after it has
\* received exactly one partial result from each worker it started.
C17_EventuallyReturns ==
  /\ [](/\ \A g \in Running : ENABLED Worker(g)
        /\ Len(results) + received = Cardinality(Seeded)
        /\ (pc = "returned" /\ trials > 0) =>
             /\ spawned = workers
             /\ Seeded = 1..workers
             /\ received = workers
             /\ results = <<>>)
  /\ (pc = "call" /\ MalformedKinds = {} /\ trials > 0) ~> (pc = "returned")

\* every worker of a full pool has sent while the orchestrator has received
\* nothing: the channel holds as many results as its capacity
C17_Witness ==
  /\ pc = "collect"
  /\ workers = PoolSize
  /\ Len(results) = PoolSize
  /\ received = 0
  /\ Running = {}

\* field-wise sum of two results
addResults(a, b) ==
  [HeroWins |-> a.HeroWins + b.HeroWins,
   VillainWins |-> a.VillainWins + b.VillainWins,
   Ties |-> a.Ties + b.Ties,
   TrialsRun |-> a.TrialsRun + b.TrialsRun]

\* field-wise sum of the results of a sequence
RECURSIVE sumResults(_)
sumResults(rs) ==
  IF rs = <<>> THEN SimulationResult(0, 0, 0, 0)
  ELSE addResults(Head(rs), sumResults(Tail(rs)))

\* the partial results of the workers that have sent, in the order of the
\* workers' numbers
RECURSIVE partialsFrom(_)
partialsFrom(g) ==
  IF g > Len(goroutine) THEN <<>>
  ELSE (IF goroutine[g].state = "done" THEN <<goroutine[g].local>> ELSE <<>>)
         \o partialsFrom(g + 1)

\* C18: the final result is the field-wise sum of all workers' partial
\* results, whatever the order in which the workers finish and their results
\* are received: what has been received and what waits in the channel always
\* add up to the sum of the partial results sent.
C18_MergeIsSum ==
  pc \in {"spawn", "collect", "returned", "responded"} =>
    /\ addResults(final, sumResults(results)) = sumResults(partialsFrom(1))
    /\ (pc \in {"returned", "responded"} /\ trials > 0) =>
         /\ Len(partialsFrom(1)) = workers
         /\ final = sumResults(partialsFrom(1))

\* every worker of a full pool has sent, and the one result received so far
\* is not the first worker's, whose result still waits in the channel
C18_Witness ==
  /\ pc = "collect"
  /\ workers = PoolSize
  /\ Running = {}
  /\ received = 1
  /\ final # goroutine[1].local
  /\ final = goroutine[2].local
  /\ \E i \in 1..Len(results) : results[i] = goroutine[1].local

(***************************************************************************)
(* Claims about a trial on a complete board (SpecTrial)                    *)
(***************************************************************************)
\* a trial on a complete board against one opponent has returned
CompleteBoardTrial == pc = "tallied" /\ Len(community) = 5 /\ numOpponents = 1

\* the flags of the trial the source with seed 0 gives first
firstTrialFlags ==
  LET t == simulateOnce([seed |-> 0, n |-> 0], heroHole, community,
                        filterDeck(heroHole, community), numOpponents)
  IN <<t.heroWin, t.villainWin, t.tie>>

\* C19 as stated: with a complete 5-card community and 1 opponent no cards
\* are drawn and the outcome is the same in every trial, for every random
\* seed: every trial yields the flags of every other.
C19_SameOutcomeEveryTrial ==
  CompleteBoardTrial =>
    /\ trial.drawIdx = 0
    /\ <<trial.heroWin, trial.villainWin, trial.tie>> = firstTrialFlags

\* C19 amended: with a complete 5-card community and 1 opponent no board card
\* is drawn and hero's best hand is the same in every trial, while the
\* opponent's two hole cards are the first two of the shuffled deck; exactly
\* one flag is set, by the comparison of the opponent's best hand with hero's.
C19_BoardFixedOpponentDrawn ==
  CompleteBoardTrial =>
    LET oppBest == EvaluateBestHand(<<trial.tmp[1], trial.tmp[2]>> \o community)
        c == CompareHandValues(oppBest, trial.heroBest)
    IN /\ trial.simCommunity = community
       /\ trial.heroBest = EvaluateBestHand(heroHole \o community)
       /\ trial.drawIdx = 2
       /\ trial.oppHoles = <<<<trial.tmp[1], trial.tmp[2]>>>>
       /\ trial.oppBests = <<oppBest>>
       /\ trial.villainWin = (c > 0)
       /\ trial.tie = (c = 0)
       /\ trial.heroWin = (c < 0)

\* a trial on a complete board whose flags are not those of the first trial
\* of the source with seed 0
C19_Witness ==
  /\ CompleteBoardTrial
  /\ <<trial.heroWin, trial.villainWin, trial.tie>> # firstTrialFlags

(***************************************************************************)
(* Claims about the memory the workers share (SpecShare)                   *)
(***************************************************************************)
\* C16: while the workers run, no worker stores into memory another worker
\* loads or stores: the arrays of the hero hole cards, of the community cards
\* and of the filtered deck are never stored into and keep their contents,
\* whatever simulateOnce and EvaluateBestHand/evaluate5 shuffle and sort is
\* an array of the worker itself, and a worker's tally is stored into by
\* that worker alone.
C16_NoSharedWrites ==
  pc = "workers" =>
    /\ \A a \in writes, b \in writes :
         (a.op = "store" /\ a.buf = b.buf) => a.by = b.by
    /\ \A a \in writes : a.op = "store" => a.buf = <<a.by, a.buf[2]>>
    /\ heap[heroHoleArg.buf] = heroHole
    /\ heap[communityArg.buf] = community
    /\ heap[filteredArg.buf] = filtered
    /\ \A g \in 1..workers :
         /\ frame[g].tmp.buf \notin SharedBufs
         /\ frame[g].simCommunity.buf \notin SharedBufs

\* two workers hold differently shuffled copies of the filtered deck, which
\* both loaded, while the first has played a trial on its earlier copy
C16_Witness ==
  /\ pc = "workers"
  /\ workers >= 2
  /\ frame[1].at = "shuffled"
  /\ frame[1].i = 1
  /\ frame[2].at = "shuffled"
  /\ heap[frame[1].tmp.buf] # heap[frame[2].tmp.buf]
  /\ load(1, filteredArg.buf) \in writes
  /\ load(2, filteredArg.buf) \in writes
  /\ store(1, <<1, "hand">>) \in writes

(***************************************************************************)
(* Claims about ParseCard (SpecParse)                                      *)
(***************************************************************************)
SuitLetters == {"H", "D", "C", "S"}
RankSymbols == {"2", "3", "4", "5", "6", "7", "8", "9", "T", "J", "Q", "K", "A"}

\* C20: ParseCard succeeds exactly on the 52 codes of a suit letter followed
\* by a rank symbol, and returns the card of the deck with that code; a string
\* whose length is not 2 fails with the invalid-format error, one of length 2
\* whose second byte is no rank symbol with the invalid-rank error, one whose
\* second byte is a rank symbol and whose first is no suit letter with the
\* invalid-suit error; lowercase letters are rejected.  (The number of the
\* strings accepted is counted once, at the empty string.)
C20_ParseCardTotal ==
  pc = "parsed" =>
    LET ok == Len(text) = 2 /\ text[1] \in SuitLetters /\ text[2] \in RankSymbols
    IN /\ (parse.err = "ok") = ok
       /\ ok => /\ \E k \in 1..Len(FullDeck) : FullDeck[k] = parse.card
                /\ parse.card.Str = text
                /\ suitChar(parse.card.Suit) = text[1]
                /\ rankChar(parse.card.Rank) = text[2]
       /\ (parse.err = "invalid card format") = (Len(text) # 2)
       /\ (parse.err = "invalid rank") = (Len(text) = 2 /\ text[2] \notin RankSymbols)
       /\ (parse.err = "invalid suit") =
            (Len(text) = 2 /\ text[2] \in RankSymbols /\ text[1] \notin SuitLetters)
       /\ parse.err # "ok" => parse.card = ZeroCard
       /\ text = <<>> => Cardinality({t \in Texts(2) : ParseCard(t).err = "ok"}) = Len(FullDeck)

\* a lowercase suit letter before a rank symbol was rejected for its suit
C20_Witness ==
  /\ pc = "parsed"
  /\ text = <<"h", "A">>
  /\ parse.err = "invalid suit"

\* C21: a POST to each of the paths README.md lists, /api/evaluate and
\* /api/equity, is dispatched by the mux to the handler of that endpoint:
\* the hand evaluation and the equity simulation.
C21_DocumentedPathsRouted ==
  (handler # None /\ request.Method = "POST" /\ request.Path \in DOMAIN documented)
    => handler = documented[request.Path]

unparsable(strs) == \E i \in 1..Len(strs) : ParseCard(strs[i]).err # "ok"

\* the request breaks a size precondition of the core operation its handler
\* calls, or carries a card code that does not parse
violates(h, req) ==
  CASE h = "handleEvaluate" ->
         \/ Len(req.Hole) + Len(req.Community) # 7
         \/ unparsable(req.Hole) \/ unparsable(req.Community)
    [] h = "handleWinner" ->
         \/ Len(req.Player1Hole) + Len(req.Community) # 7
         \/ Len(req.Player2Hole) + Len(req.Community) # 7
         \/ unparsable(req.Player1Hole) \/ unparsable(req.Player2Hole)
         \/ unparsable(req.Community)
    [] h = "handleSimulate" ->
         \/ Len(req.Hole) # 2
         \/ Len(req.Community) \notin {0, 3, 4, 5}
         \/ req.NumOpponents < 1
         \/ req.Trials <= 0
         \/ unparsable(req.Hole) \/ unparsable(req.Community)
    [] OTHER -> FALSE

\* C24: every call of EvaluateBestHand a request leads to has exactly 7
\* cards, each a card of the deck; handleSimulate reaches its call of
\* SimulateEquity only with 2 hole cards, 0, 3, 4 or 5 community cards, at
\* least 1 opponent and a positive trial count; and a decoded POST that breaks
\* one of these, or carries an unparsable card code, has been answered with
\* status 400 and without any call once its handler is done.
C24_SizePreconditionsMet ==
  /\ \A i \in 1..Len(calls) :
       /\ Len(calls[i]) = 7
       /\ \A j \in 1..7 : \E k \in 1..Len(FullDeck) : FullDeck[k] = calls[i][j]
  /\ pc = "call" =>
       /\ Len(heroHole) = 2
       /\ Len(community) \in {0, 3, 4, 5}
       /\ numOpponents >= 1
       /\ trials > 0
       /\ request.NumOpponents = numOpponents
       /\ request.Trials = trials
  /\ (/\ pc \in {"responded", "rejected", "call", "panicked"}
      /\ request.Method = "POST"
      /\ request.Decodes
      /\ violates(handler, request))
       => /\ pc \in {"responded", "rejected"}
          /\ response.status = 400
          /\ calls = <<>>

\* handleWinner answered after its two calls of EvaluateBestHand
C24_Witness ==
  /\ pc = "responded"
  /\ handler = "handleWinner"
  /\ Len(calls) = 2
  /\ calls[1] # calls[2]
  /\ response.status = 200

\* the elements of a set of ranks, highest first
RECURSIVE descending(_)
descending(S) == IF S = {} THEN <<>> ELSE <<SetMax(S)>> \o descending(S \ {SetMax(S)})

\* the decision list on the ranks and suits of 5 cards
decisionList(cards) ==
  LET R == {cards[i].Rank : i \in DOMAIN cards}
      count(r) == Cardinality({i \in DOMAIN cards : cards[i].Rank = r})
      of(n) == {r \in R : count(r) = n}
      oneSuit == \A i, j \in DOMAIN cards : cards[i].Suit = cards[j].Suit
      wheel == R = {Ace, Two, Three, Four, Five}
      run == Cardinality(R) = 5 /\ SetMax(R) - SetMin(R) = 4
      top == IF wheel THEN Five ELSE SetMax(R)
  IN CASE oneSuit /\ (wheel \/ run) -> HandValue(StraightFlush, <<top>>)
       [] oneSuit /\ ~(wheel \/ run) -> HandValue(Flush, descending(R))
       [] ~oneSuit /\ (wheel \/ run) -> HandValue(Straight, <<top>>)
       [] OTHER ->
            IF of(4) # {}
            THEN HandValue(FourOfAKind, <<SetMax(of(4)), SetMax(of(1))>>)
            ELSE IF of(3) # {} /\ of(2) # {}
            THEN HandValue(FullHouse, <<SetMax(of(3)), SetMax(of(2))>>)
            ELSE IF of(3) # {}
            THEN HandValue(ThreeOfAKind, <<SetMax(of(3))>> \o descending(of(1)))
            ELSE IF Cardinality(of(2)) = 2
            THEN HandValue(TwoPair, <<SetMax(of(2)), SetMin(of(2)), SetMax(of(1))>>)
            ELSE IF of(2) # {}
            THEN HandValue(OnePair, <<SetMax(of(2))>> \o descending(of(1)))
            ELSE HandValue(HighCard, descending(R))

\* C22: on 5 distinct cards evaluate5 returns the category and the kickers of
\* the decision list (Straight Flush, Flush, Straight, Four of a Kind, Full
\* House, Three of a Kind, Two Pair, One Pair, High Card, the first that
\* applies), and two hands of the same ranks that are both flushes or both
\* not get the same value.
C22_DecisionList ==
  pc = "classified" =>
    /\ \A h \in 1..2 : distinctCards(fives[h]) /\ values[h] = decisionList(fives[h])
    /\ detectFlush(fives[1]).ok = detectFlush(fives[2]).ok => values[1] = values[2]

\* two pair below an Ace kicker, dealt out of order, in two suitings
C22_Witness ==
  /\ pc = "classified"
  /\ ranksOnly(fives[1]) = <<Three, Ace, Five, Three, Five>>
  /\ fives[1] # fives[2]
  /\ values[1] = HandValue(TwoPair, <<Five, Three, Ace>>)
  /\ values[2] = values[1]

\* a precedes b in the lexicographic order of index tuples of one length
lexLess(a, b) ==
  \E i \in 1..Len(a) : a[i] < b[i] /\ \A j \in 1..(i - 1) : a[j] = b[j]

\* the elements of a set of positions, lowest first
RECURSIVE increasing(_)
increasing(S) == IF S = {} THEN <<>> ELSE <<SetMin(S)>> \o increasing(S \ {SetMin(S)})

\* the 5-element subsets of the 7 positions, as increasing tuples
IndexSubsets ==
  {increasing(S) : S \in {T \in SUBSET (0..(comboN - 1)) : Cardinality(T) = comboK}}

\* C23: the generator starts at [0,1,2,3,4]; it always holds 5 strictly
\* increasing indices in 0..6; the combinations evaluated come in strictly
\* increasing lexicographic order; and when the loop ends all C(7,5) = 21
\* index subsets have been evaluated, each once, the last being [2,3,4,5,6].
C23_GeneratorVisitsAll ==
  /\ Len(indexes) = 5
  /\ \A i \in 1..5 : indexes[i] \in 0..6
  /\ \A i \in 1..4 : indexes[i] < indexes[i + 1]
  /\ visited # <<>> => visited[1] = <<0, 1, 2, 3, 4>> /\ visited[Len(visited)] = indexes
  /\ \A i \in 1..(Len(visited) - 1) : lexLess(visited[i], visited[i + 1])
  /\ pc = "returned" =>
       /\ Len(visited) = 21
       /\ {visited[i] : i \in 1..Len(visited)} = IndexSubsets
       /\ Cardinality(IndexSubsets) = 21
       /\ indexes = <<2, 3, 4, 5, 6>>
       /\ ~next(indexes).ok

\* the loop has ended on the wheel fixture, the best hand found on the way
C23_Witness ==
  /\ pc = "returned"
  /\ Len(visited) = 21
  /\ best = HandValue(Straight, <<Five>>)
  /\ evalCombo(hand, visited[1]) # best

\* C25: in every trial the best hand of hero and of each opponent dealt is
\* at least the value of the 5 community cards by themselves; so a trial in
\* which hero's best hand equals that value and an opponent was dealt is not
\* a hero win: it is a tie or a villain win.
C25_BoardIsFloor ==
  pc = "tallied" =>
    LET boardValue == evaluate5(trial.simCommunity)
    IN /\ Len(trial.simCommunity) = 5
       /\ CompareHandValues(trial.heroBest, boardValue) >= 0
       /\ \A k \in DOMAIN trial.oppBests : CompareHandValues(trial.oppBests[k], boardValue) >= 0
       /\ (CompareHandValues(trial.heroBest, boardValue) = 0 /\ Len(trial.oppBests) >= 1)
            => /\ ~trial.heroWin
               /\ trial.tie # trial.villainWin

\* hero plays the straight flush on the board and an opponent holding the
\* King of its suit beats it
C25_Witness ==
  /\ pc = "tallied"
  /\ trial.heroBest = evaluate5(trial.simCommunity)
  /\ trial.heroBest = HandValue(StraightFlush, <<Queen>>)
  /\ Len(trial.oppBests) >= 1
  /\ \E k \in DOMAIN trial.oppBests : trial.oppBests[k] = HandValue(StraightFlush, <<King>>)
  /\ trial.villainWin

====
